---- MODULE Spec2Model ----
(***************************************************************************)
(* A model of the automata engine of FSM-Visualizer: the automaton objects *)
(* (models/automaton.py, dfa.py, nfa.py), Thompson's construction          *)
(* (algorithms/thompson.py), epsilon elimination and subset construction   *)
(* (algorithms/subset_construction.py) and DFA minimization                *)
(* (algorithms/minimization.py).                                           *)
(*                                                                         *)
(* Conventions.  A Python str used as a state name or a symbol is a TLA+   *)
(* string; an input string is the sequence of its characters.  Python's    *)
(* None is the string None.  A call that may raise returns a record        *)
(* [raised |-> <exception name>] or [raised |-> "", value |-> <result>];   *)
(* an exception raised by a callee is passed on unchanged by the caller.   *)
(* Where Python iterates over a set, the order is the one Order picks; the *)
(* properties stated below do not depend on that order.                    *)
(***************************************************************************)
EXTENDS Integers, Sequences, FiniteSets, TLC

VARIABLES
    obj,      \* the automaton under construction (add_state / add_transition)
    last,     \* outcome of the last call made on obj
    ast,      \* the regex AST handed to thompson_construction
    w,        \* the input string the machines are run on
    enfa,     \* result of thompson_construction, or Absent
    nfa,      \* result of epsilon_nfa_to_nfa, or Absent
    dfa,      \* result of nfa_to_dfa, or Absent
    mdfa,     \* result of minimize_dfa, or Absent
    mdfa2,    \* result of minimize_dfa applied to mdfa, or Absent
    pc,       \* the conversion run last, "" before the first
    exc,      \* the exception the conversion run last raised, "" if none
    moore,    \* result of mealy_to_moore, or Absent
    mealy,    \* result of moore_to_mealy, or Absent
    search    \* the breadth-first search of PDA.accepts: its locals and its verdict

vars == <<obj, last, ast, w, enfa, nfa, dfa, mdfa, mdfa2, pc, exc, moore, mealy, search>>

(***************************************************************************)
(* Values                                                                  *)
(***************************************************************************)
None == "None"
Epsilon == "ε"

Ok(v) == [raised |-> "", value |-> v]
Raise(e) == [raised |-> e]
IsOk(r) == r.raised = ""

\* The rest of a function after a call that may raise: K on the value the
\* call returned, or the exception passed on.
Try(r, K(_)) == IF IsOk(r) THEN K(r.value) ELSE r

\* A method that raised e, having left its object as self.
Failed(e, self) == [raised |-> e, self |-> self]
\* The object after a method call: the value the model's method returned, or
\* the object as the raising call left it.
After(r) == IF IsOk(r) THEN r.value ELSE r.self

\* No automaton: the variable of a stage that has not produced one.
Absent == [kind |-> "Absent"]

\* No search: PDA.accepts has not been called.
NoSearch == [verdict |-> "not called"]

SetToSeq(S) ==
    LET RECURSIVE Build(_)
        Build(T) == IF T = {} THEN <<>>
                    ELSE LET x == CHOOSE y \in T : TRUE
                         IN <<x>> \o Build(T \ {x})
    IN Build(S)

\* The order in which a Python loop visits the members of a set.
Order(S) == SetToSeq(S)

\* sorted(S) for a set of one-character strings drawn from "0" "1" "a" "b".
Rank(c) == CASE c = "0" -> 0 [] c = "1" -> 1 [] c = "a" -> 2 [] c = "b" -> 3 [] OTHER -> 4
Sorted(S) ==
    LET RECURSIVE Build(_)
        Build(T) == IF T = {} THEN <<>>
                    ELSE LET x == CHOOSE y \in T : \A z \in T : Rank(y) <= Rank(z)
                         IN <<x>> \o Build(T \ {x})
    IN Build(S)

(***************************************************************************)
(* models/automaton.py: Automaton                                          *)
(***************************************************************************)
State(name, is_accept, is_start) ==
    [name |-> name, is_accept |-> is_accept, is_start |-> is_start]

Transition(from_state, to_state, symbol, output) ==
    [from_state |-> from_state, to_state |-> to_state, symbol |-> symbol, output |-> output]

\* Automaton.__init__ together with the subclass's _transition_table.
NewAutomaton(kind) ==
    [kind |-> kind, states |-> <<>>, alphabet |-> {}, start_state |-> None,
     accept_states |-> {}, transitions |-> <<>>, table |-> <<>>]

Automaton_add_state(A, name, is_accept, is_start) ==
    [A EXCEPT !.states = (name :> State(name, is_accept, is_start)) @@ @,
              !.accept_states = IF is_accept THEN @ \cup {name} ELSE @,
              !.start_state = IF is_start THEN name ELSE @]

\* Automaton_add_transition adding every symbol to the alphabet.
Automaton_add_transition_any_symbol(A, from_state, to_state, symbol, output) ==
    [A EXCEPT !.alphabet = @ \cup {symbol},
              !.transitions = Append(@, Transition(from_state, to_state, symbol, output))]

Automaton_add_transition(A, from_state, to_state, symbol, output) ==
    [A EXCEPT !.alphabet = IF symbol # Epsilon THEN @ \cup {symbol} ELSE @,
              !.transitions = Append(@, Transition(from_state, to_state, symbol, output))]

get_state_count(A) == Cardinality(DOMAIN A.states)

(***************************************************************************)
(* models/dfa.py: DFA                                                      *)
(***************************************************************************)
\* DFA_add_transition with the check for an existing key made after
\* super().add_transition instead of before it.
DFA_add_transition_checks_late(D, from_state, to_state, symbol) ==
    LET key == <<from_state, symbol>>
    IN IF key \in DOMAIN D.table
       THEN Failed("ValueError", Automaton_add_transition(D, from_state, to_state, symbol, None))
       ELSE Ok([Automaton_add_transition(D, from_state, to_state, symbol, None)
                  EXCEPT !.table = (key :> to_state) @@ @])

\* DFA_add_transition without the check for an existing key.
DFA_add_transition_unchecked(D, from_state, to_state, symbol) ==
    Ok([Automaton_add_transition(D, from_state, to_state, symbol, None)
          EXCEPT !.table = (<<from_state, symbol>> :> to_state) @@ @])

DFA_add_transition(D, from_state, to_state, symbol) ==
    LET key == <<from_state, symbol>>
    IN IF key \in DOMAIN D.table
       THEN Failed("ValueError", D)
       ELSE Ok([Automaton_add_transition(D, from_state, to_state, symbol, None)
                  EXCEPT !.table = (key :> to_state) @@ @])

get_next_state(D, current_state, symbol) ==
    IF <<current_state, symbol>> \in DOMAIN D.table
    THEN D.table[<<current_state, symbol>>]
    ELSE None

RECURSIVE DFA_walk(_, _, _)
DFA_walk(D, current_state, input) ==
    IF input = <<>> THEN current_state \in D.accept_states
    ELSE LET next_state == get_next_state(D, current_state, Head(input))
         IN IF next_state = None THEN FALSE
            ELSE DFA_walk(D, next_state, Tail(input))

DFA_accepts(D, input_string) ==
    IF D.start_state = None THEN FALSE
    ELSE DFA_walk(D, D.start_state, input_string)

(***************************************************************************)
(* models/nfa.py: NFA and EpsilonNFA                                       *)
(***************************************************************************)
NFA_add_transition(N, from_state, to_state, symbol) ==
    LET key == <<from_state, symbol>>
        old == IF key \in DOMAIN N.table THEN N.table[key] ELSE {}
    IN [Automaton_add_transition(N, from_state, to_state, symbol, None)
          EXCEPT !.table = (key :> (old \cup {to_state})) @@ @]

get_next_states(N, current_state, symbol) ==
    IF <<current_state, symbol>> \in DOMAIN N.table
    THEN N.table[<<current_state, symbol>>]
    ELSE {}

RECURSIVE NFA_walk(_, _, _)
NFA_walk(N, current_states, input) ==
    IF input = <<>> THEN current_states \cap N.accept_states # {}
    ELSE LET next_states ==
                 UNION {get_next_states(N, state, Head(input)) : state \in current_states}
         IN IF next_states = {} THEN FALSE
            ELSE NFA_walk(N, next_states, Tail(input))

NFA_accepts(N, input_string) ==
    IF N.start_state = None THEN FALSE
    ELSE NFA_walk(N, {N.start_state}, input_string)

\* EpsilonNFA.epsilon_closure: closure is the set built so far, queue the deque.
RECURSIVE closure_loop(_, _, _)
closure_loop(N, closure, queue) ==
    IF queue = <<>> THEN closure
    ELSE LET state == Head(queue)
             fresh == get_next_states(N, state, Epsilon) \ closure
         IN closure_loop(N, closure \cup fresh, Tail(queue) \o Order(fresh))

EpsilonNFA_epsilon_closure(N, states) == closure_loop(N, states, Order(states))

RECURSIVE ENFA_walk(_, _, _)
ENFA_walk(N, current_states, input) ==
    IF input = <<>> THEN current_states \cap N.accept_states # {}
    ELSE LET next_states ==
                 UNION {get_next_states(N, state, Head(input)) : state \in current_states}
         IN IF next_states = {} THEN FALSE
            ELSE ENFA_walk(N, EpsilonNFA_epsilon_closure(N, next_states), Tail(input))

EpsilonNFA_accepts(N, input_string) ==
    IF N.start_state = None THEN FALSE
    ELSE ENFA_walk(N, EpsilonNFA_epsilon_closure(N, {N.start_state}), input_string)

\* Method dispatch on the object's class.
add_transition(A, from_state, to_state, symbol) ==
    CASE A.kind = "DFA" -> DFA_add_transition(A, from_state, to_state, symbol)
      [] A.kind \in {"NFA", "EpsilonNFA"} ->
             Ok(NFA_add_transition(A, from_state, to_state, symbol))
      [] OTHER -> Ok(Automaton_add_transition(A, from_state, to_state, symbol, None))

accepts(A, input_string) ==
    CASE A.kind = "DFA" -> DFA_accepts(A, input_string)
      [] A.kind = "NFA" -> NFA_accepts(A, input_string)
      [] A.kind = "EpsilonNFA" -> EpsilonNFA_accepts(A, input_string)

(***************************************************************************)
(* models/dfa.py, nfa.py: simulate_step_by_step; visualization/simulator.py *)
(***************************************************************************)
\* The loop of DFA.simulate_step_by_step.
RECURSIVE DFA_steps(_, _, _, _)
DFA_steps(D, current_state, steps, input) ==
    IF input = <<>> THEN steps
    ELSE IF get_next_state(D, current_state, Head(input)) = None
    THEN Append(steps, <<current_state, Head(input), "REJECT">>)
    ELSE DFA_steps(D, get_next_state(D, current_state, Head(input)),
                   Append(steps, <<current_state, Head(input),
                                   get_next_state(D, current_state, Head(input))>>),
                   Tail(input))

DFA_simulate_step_by_step(D, input_string) ==
    IF D.start_state = None THEN <<>>
    ELSE DFA_steps(D, D.start_state, <<>>, input_string)

\* next_states = set(); for state in current_states: next_states.update(...)
next_states_of(N, current_states, symbol) ==
    UNION {get_next_states(N, state, symbol) : state \in current_states}

\* The loop of NFA.simulate_step_by_step.
RECURSIVE NFA_steps(_, _, _, _)
NFA_steps(N, current_states, steps, input) ==
    IF input = <<>> THEN steps
    ELSE IF next_states_of(N, current_states, Head(input)) = {}
    THEN Append(steps, <<current_states, Head(input), {}>>)
    ELSE NFA_steps(N, next_states_of(N, current_states, Head(input)),
                   Append(steps, <<current_states, Head(input),
                                   next_states_of(N, current_states, Head(input))>>),
                   Tail(input))

NFA_simulate_step_by_step(N, input_string) ==
    IF N.start_state = None THEN <<>>
    ELSE NFA_steps(N, {N.start_state}, <<>>, input_string)

\* EpsilonNFA_steps recording the states a symbol leads to without their closure.
RECURSIVE EpsilonNFA_steps_unclosed(_, _, _, _)
EpsilonNFA_steps_unclosed(N, current_states, steps, input) ==
    IF input = <<>> THEN steps
    ELSE IF next_states_of(N, current_states, Head(input)) = {}
    THEN Append(steps, <<current_states, Head(input), {}>>)
    ELSE EpsilonNFA_steps_unclosed(
             N, EpsilonNFA_epsilon_closure(N, next_states_of(N, current_states, Head(input))),
             Append(steps, <<current_states, Head(input),
                             next_states_of(N, current_states, Head(input))>>),
             Tail(input))

\* The loop of EpsilonNFA.simulate_step_by_step.
RECURSIVE EpsilonNFA_steps(_, _, _, _)
EpsilonNFA_steps(N, current_states, steps, input) ==
    IF input = <<>> THEN steps
    ELSE IF EpsilonNFA_epsilon_closure(N, next_states_of(N, current_states, Head(input))) = {}
    THEN Append(steps, <<current_states, Head(input), {}>>)
    ELSE EpsilonNFA_steps(
             N, EpsilonNFA_epsilon_closure(N, next_states_of(N, current_states, Head(input))),
             Append(steps, <<current_states, Head(input),
                             EpsilonNFA_epsilon_closure(
                                 N, next_states_of(N, current_states, Head(input)))>>),
             Tail(input))

EpsilonNFA_simulate_step_by_step(N, input_string) ==
    IF N.start_state = None THEN <<>>
    ELSE EpsilonNFA_steps(N, EpsilonNFA_epsilon_closure(N, {N.start_state}), <<>>,
                          input_string)

SimulationResult(accepted, steps) == [accepted |-> accepted, steps |-> steps]

simulate_dfa(D, input_string) ==
    SimulationResult(DFA_accepts(D, input_string), DFA_simulate_step_by_step(D, input_string))

simulate_nfa(N, input_string) ==
    SimulationResult(NFA_accepts(N, input_string), NFA_simulate_step_by_step(N, input_string))

simulate_epsilon_nfa(N, input_string) ==
    SimulationResult(EpsilonNFA_accepts(N, input_string),
                     EpsilonNFA_simulate_step_by_step(N, input_string))

\* simulate_automaton: the isinstance tests for DFA, EpsilonNFA and NFA.
simulate_automaton(A, input_string) ==
    CASE A.kind = "DFA" -> simulate_dfa(A, input_string)
      [] A.kind = "EpsilonNFA" -> simulate_epsilon_nfa(A, input_string)
      [] A.kind = "NFA" -> simulate_nfa(A, input_string)

(***************************************************************************)
(* models/automaton.py, dfa.py: validate                                   *)
(***************************************************************************)
\* validate_transitions without the check of to_state.
RECURSIVE validate_transitions_from_only(_, _)
validate_transitions_from_only(A, i) ==
    IF i > Len(A.transitions) THEN <<TRUE, "Valid">>
    ELSE IF A.transitions[i].from_state \notin DOMAIN A.states
    THEN <<FALSE, "Transition from undefined state '" \o A.transitions[i].from_state \o "'">>
    ELSE validate_transitions_from_only(A, i + 1)

\* The loop over self.transitions of Automaton.validate, from index i.
RECURSIVE validate_transitions(_, _)
validate_transitions(A, i) ==
    IF i > Len(A.transitions) THEN <<TRUE, "Valid">>
    ELSE IF A.transitions[i].from_state \notin DOMAIN A.states
    THEN <<FALSE, "Transition from undefined state '" \o A.transitions[i].from_state \o "'">>
    ELSE IF A.transitions[i].to_state \notin DOMAIN A.states
    THEN <<FALSE, "Transition to undefined state '" \o A.transitions[i].to_state \o "'">>
    ELSE validate_transitions(A, i + 1)

Automaton_validate(A) ==
    IF DOMAIN A.states = {} THEN <<FALSE, "No states defined">>
    ELSE IF A.start_state = None THEN <<FALSE, "No start state defined">>
    ELSE IF A.start_state \notin DOMAIN A.states
    THEN <<FALSE, "Start state '" \o A.start_state \o "' not in states">>
    ELSE validate_transitions(A, 1)

\* The determinism loop of DFA.validate, from index i; seen is the set of keys met.
RECURSIVE validate_deterministic(_, _, _)
validate_deterministic(D, i, seen) ==
    IF i > Len(D.transitions) THEN <<TRUE, "Valid DFA">>
    ELSE IF <<D.transitions[i].from_state, D.transitions[i].symbol>> \in seen
    THEN <<FALSE, "Non-deterministic transition: " \o D.transitions[i].from_state
                  \o " --" \o D.transitions[i].symbol \o "-->">>
    ELSE validate_deterministic(D, i + 1,
             seen \cup {<<D.transitions[i].from_state, D.transitions[i].symbol>>})

DFA_validate(D) ==
    IF ~Automaton_validate(D)[1] THEN <<FALSE, Automaton_validate(D)[2]>>
    ELSE validate_deterministic(D, 1, {})

(***************************************************************************)
(* models/mealy_moore.py: MealyMachine and MooreMachine                    *)
(***************************************************************************)
NewMealyMachine == [output_alphabet |-> {}] @@ NewAutomaton("MealyMachine")

MealyMachine_add_transition(M, from_state, to_state, symbol, output) ==
    IF output = None
    THEN Failed("ValueError", M)
    ELSE Ok([Automaton_add_transition(M, from_state, to_state, symbol, output)
               EXCEPT !.table = (<<from_state, symbol>> :> <<to_state, output>>) @@ @,
                      !.output_alphabet = @ \cup {output}])

get_next_state_and_output(M, current_state, symbol) ==
    IF <<current_state, symbol>> \in DOMAIN M.table
    THEN M.table[<<current_state, symbol>>]
    ELSE None

\* Mealy_walk returning no outputs when a transition is undefined.
RECURSIVE Mealy_walk_drops_outputs(_, _, _, _)
Mealy_walk_drops_outputs(M, current_state, outputs, input) ==
    IF input = <<>> THEN <<TRUE, outputs>>
    ELSE IF get_next_state_and_output(M, current_state, Head(input)) = None
    THEN <<FALSE, <<>> >>
    ELSE Mealy_walk_drops_outputs(
             M, get_next_state_and_output(M, current_state, Head(input))[1],
             Append(outputs, get_next_state_and_output(M, current_state, Head(input))[2]),
             Tail(input))

\* The loop of MealyMachine.process_input.
RECURSIVE Mealy_walk(_, _, _, _)
Mealy_walk(M, current_state, outputs, input) ==
    IF input = <<>> THEN <<TRUE, outputs>>
    ELSE IF get_next_state_and_output(M, current_state, Head(input)) = None
    THEN <<FALSE, outputs>>
    ELSE Mealy_walk(M, get_next_state_and_output(M, current_state, Head(input))[1],
                    Append(outputs, get_next_state_and_output(M, current_state, Head(input))[2]),
                    Tail(input))

MealyMachine_process_input(M, input_string) ==
    IF M.start_state = None THEN <<FALSE, <<>> >>
    ELSE Mealy_walk(M, M.start_state, <<>>, input_string)

NewMooreMachine ==
    [output_alphabet |-> {}, state_outputs |-> <<>>] @@ NewAutomaton("MooreMachine")

MooreMachine_add_state(M, name, is_accept, is_start) ==
    Automaton_add_state(M, name, is_accept, is_start)

MooreMachine_set_state_output(M, state, output) ==
    IF state \notin DOMAIN M.states
    THEN Failed("ValueError", M)
    ELSE Ok([M EXCEPT !.state_outputs = (state :> output) @@ @,
                      !.output_alphabet = @ \cup {output}])

MooreMachine_add_transition(M, from_state, to_state, symbol, output) ==
    Ok([Automaton_add_transition(M, from_state, to_state, symbol, None)
          EXCEPT !.table = (<<from_state, symbol>> :> to_state) @@ @])

\* self.state_outputs.get(state, "")
state_output_or_empty(M, state) ==
    IF state \in DOMAIN M.state_outputs THEN M.state_outputs[state] ELSE ""

\* MooreMachine.get_next_state: the same lookup as DFA.get_next_state.
MooreMachine_get_next_state(M, current_state, symbol) ==
    get_next_state(M, current_state, symbol)

\* The loop of MooreMachine.process_input.
RECURSIVE Moore_walk(_, _, _, _)
Moore_walk(M, current_state, outputs, input) ==
    IF input = <<>> THEN <<TRUE, outputs>>
    ELSE IF MooreMachine_get_next_state(M, current_state, Head(input)) = None
    THEN <<FALSE, outputs>>
    ELSE Moore_walk(M, MooreMachine_get_next_state(M, current_state, Head(input)),
                    Append(outputs, state_output_or_empty(M,
                               MooreMachine_get_next_state(M, current_state, Head(input)))),
                    Tail(input))

MooreMachine_process_input(M, input_string) ==
    IF M.start_state = None THEN <<FALSE, <<>> >>
    ELSE Moore_walk(M, M.start_state, <<state_output_or_empty(M, M.start_state)>>,
                    input_string)

\* The states a machine reaches from those of S along its lookup table.
RECURSIVE MooreReach(_, _)
MooreReach(M, S) ==
    IF S \cup {M.table[k] : k \in {k \in DOMAIN M.table : k[1] \in S}} = S THEN S
    ELSE MooreReach(M, S \cup {M.table[k] : k \in {k \in DOMAIN M.table : k[1] \in S}})

\* The loop over self.states of MooreMachine.validate.
RECURSIVE validate_outputs(_, _)
validate_outputs(M, names) ==
    IF names = <<>> THEN <<TRUE, "Valid Moore machine">>
    ELSE IF Head(names) \notin DOMAIN M.state_outputs
    THEN <<FALSE, "State '" \o Head(names) \o "' has no output defined">>
    ELSE validate_outputs(M, Tail(names))

\* MooreMachine_validate asking an output only of the states reachable from
\* the start state.
MooreMachine_validate_reachable(M) ==
    IF ~Automaton_validate(M)[1] THEN <<FALSE, Automaton_validate(M)[2]>>
    ELSE validate_outputs(M, Order(MooreReach(M, {M.start_state})))

MooreMachine_validate(M) ==
    IF ~Automaton_validate(M)[1] THEN <<FALSE, Automaton_validate(M)[2]>>
    ELSE validate_outputs(M, Order(DOMAIN M.states))

\* validate as dispatched on the object's class.
validate(A) ==
    CASE A.kind = "DFA" -> DFA_validate(A)
      [] A.kind = "MooreMachine" -> MooreMachine_validate(A)
      [] OTHER -> Automaton_validate(A)

\* add_transition with an output argument, as dispatched on the object's class.
add_output_transition(A, from_state, to_state, symbol, output) ==
    CASE A.kind = "MealyMachine" ->
             MealyMachine_add_transition(A, from_state, to_state, symbol, output)
      [] A.kind = "MooreMachine" ->
             MooreMachine_add_transition(A, from_state, to_state, symbol, output)
      [] OTHER -> add_transition(A, from_state, to_state, symbol)

(***************************************************************************)
(* models/pda.py: PDA                                                      *)
(***************************************************************************)
PDATransition(from_state, to_state, input_symbol, stack_pop, stack_push) ==
    [from_state |-> from_state, to_state |-> to_state, input_symbol |-> input_symbol,
     stack_pop |-> stack_pop, stack_push |-> stack_push]

\* (state, remaining input, stack), the top of the stack first.
PDAConfiguration(state, remaining_input, stack) ==
    [state |-> state, remaining_input |-> remaining_input, stack |-> stack]

NewPDA ==
    [stack_alphabet |-> {}, start_stack_symbol |-> "Z", pda_transitions |-> <<>>]
        @@ NewAutomaton("PDA")

\* ''.join(symbols)
RECURSIVE join(_)
join(symbols) == IF symbols = <<>> THEN "" ELSE Head(symbols) \o join(Tail(symbols))

\* The label add_pda_transition hands to Automaton.add_transition.
pda_label(input_symbol, stack_pop, stack_push) ==
    input_symbol \o "," \o stack_pop \o "/"
        \o (IF stack_push # <<>> THEN join(stack_push) ELSE Epsilon)

add_pda_transition(P, from_state, to_state, input_symbol, stack_pop, stack_push) ==
    Automaton_add_transition(
        [P EXCEPT !.stack_alphabet =
                      @ \cup {stack_pop}
                        \cup {stack_push[i] : i \in {j \in 1..Len(stack_push) :
                                                         stack_push[j] # Epsilon}},
                  !.alphabet = IF input_symbol # Epsilon THEN @ \cup {input_symbol} ELSE @,
                  !.pda_transitions =
                      Append(@, PDATransition(from_state, to_state, input_symbol,
                                              stack_pop, stack_push))],
        from_state, to_state, pda_label(input_symbol, stack_pop, stack_push), None)

get_applicable_transitions(P, state, input_symbol, stack_top) ==
    SelectSeq(P.pda_transitions,
              LAMBDA trans :
                  /\ trans.from_state = state
                  /\ ~(stack_top = None \/ trans.stack_pop # stack_top)
                  /\ (trans.input_symbol = input_symbol \/ trans.input_symbol = Epsilon))

\* pda_successor keeping the remaining input whatever the transition reads.
pda_successor_reads_nothing(config, trans) ==
    PDAConfiguration(
        trans.to_state,
        config.remaining_input,
        SelectSeq(trans.stack_push, LAMBDA symbol : symbol # Epsilon) \o Tail(config.stack))

\* The configuration PDA.accepts builds from config for one applicable transition.
pda_successor(config, trans) ==
    PDAConfiguration(
        trans.to_state,
        IF trans.input_symbol # Epsilon /\ config.remaining_input # <<>>
        THEN Tail(config.remaining_input) ELSE config.remaining_input,
        SelectSeq(trans.stack_push, LAMBDA symbol : symbol # Epsilon) \o Tail(config.stack))

\* for trans in transitions: ... queue.append(new_config)
pda_successors(config, transitions) ==
    [i \in 1..Len(transitions) |-> pda_successor(config, transitions[i])]

\* PDA.accepts up to its while loop; s holds the locals queue and visited, the
\* number of loop iterations made, and the verdict once the method returned.
accepts_begin(P, input_string) ==
    IF P.start_state = None
    THEN [verdict |-> "False", queue |-> <<>>, visited |-> {}, iterations |-> 0]
    ELSE [verdict |-> "running",
          queue |-> <<PDAConfiguration(P.start_state, input_string, <<P.start_stack_symbol>>)>>,
          visited |-> {}, iterations |-> 0]

\* accepts_expand with the test for an empty stack made before the test for
\* acceptance.
accepts_expand_needs_stack(P, s, config) ==
    IF <<config.state, config.remaining_input, config.stack>> \in s.visited
    THEN [s EXCEPT !.queue = Tail(@), !.iterations = @ + 1]
    ELSE IF config.stack = <<>>
    THEN [s EXCEPT !.queue = Tail(@), !.iterations = @ + 1,
                   !.visited = @ \cup {<<config.state, config.remaining_input, config.stack>>}]
    ELSE IF config.state \in P.accept_states /\ config.remaining_input = <<>>
    THEN [s EXCEPT !.queue = Tail(@), !.iterations = @ + 1, !.verdict = "True",
                   !.visited = @ \cup {<<config.state, config.remaining_input, config.stack>>}]
    ELSE [s EXCEPT !.queue = Tail(@) \o pda_successors(config,
                                 get_applicable_transitions(P, config.state,
                                     IF config.remaining_input # <<>>
                                     THEN Head(config.remaining_input) ELSE None,
                                     Head(config.stack))),
                   !.iterations = @ + 1,
                   !.visited = @ \cup {<<config.state, config.remaining_input, config.stack>>}]

\* The body of the while loop for the configuration popped from the queue.
accepts_expand(P, s, config) ==
    IF <<config.state, config.remaining_input, config.stack>> \in s.visited
    THEN [s EXCEPT !.queue = Tail(@), !.iterations = @ + 1]
    ELSE IF config.state \in P.accept_states /\ config.remaining_input = <<>>
    THEN [s EXCEPT !.queue = Tail(@), !.iterations = @ + 1, !.verdict = "True",
                   !.visited = @ \cup {<<config.state, config.remaining_input, config.stack>>}]
    ELSE IF config.stack = <<>>
    THEN [s EXCEPT !.queue = Tail(@), !.iterations = @ + 1,
                   !.visited = @ \cup {<<config.state, config.remaining_input, config.stack>>}]
    ELSE [s EXCEPT !.queue = Tail(@) \o pda_successors(config,
                                 get_applicable_transitions(P, config.state,
                                     IF config.remaining_input # <<>>
                                     THEN Head(config.remaining_input) ELSE None,
                                     Head(config.stack))),
                   !.iterations = @ + 1,
                   !.visited = @ \cup {<<config.state, config.remaining_input, config.stack>>}]

\* accepts_step taking the configuration queued last instead of the one queued
\* first.
accepts_step_newest_first(P, s) ==
    IF s.queue = <<>> THEN [s EXCEPT !.verdict = "False"]
    ELSE accepts_expand(P,
             [s EXCEPT !.queue = <<@[Len(@)]>> \o SubSeq(@, 1, Len(@) - 1)],
             s.queue[Len(s.queue)])

\* One test of `while queue:` and, if the queue is not empty, one iteration.
accepts_step(P, s) ==
    IF s.queue = <<>> THEN [s EXCEPT !.verdict = "False"]
    ELSE accepts_expand(P, s, Head(s.queue))

\* The configuration PDA.simulate_step_by_step builds from config for the
\* transition it picked.
walk_successor(config, trans) ==
    PDAConfiguration(
        trans.to_state,
        IF trans.input_symbol # Epsilon /\ config.remaining_input # <<>>
        THEN Tail(config.remaining_input) ELSE config.remaining_input,
        SelectSeq(trans.stack_push, LAMBDA symbol : symbol # Epsilon) \o Tail(config.stack))

\* walk_pick taking the last applicable transition.
walk_pick_last(transitions) == transitions[Len(transitions)]

\* trans = transitions[0]
walk_pick(transitions) == transitions[1]

\* The for loop of PDA.simulate_step_by_step with steps_left turns to go; path
\* holds the (configuration, transition taken) pairs so far.
RECURSIVE walk_loop(_, _, _, _)
walk_apply(P, config, path, steps_left, transitions) ==
    IF transitions = <<>> THEN path
    ELSE walk_loop(P, walk_successor(config, walk_pick(transitions)),
                   Append(path, <<walk_successor(config, walk_pick(transitions)),
                                  walk_pick(transitions)>>),
                   steps_left - 1)

walk_loop(P, config, path, steps_left) ==
    IF steps_left <= 0 THEN path
    ELSE IF config.state \in P.accept_states /\ config.remaining_input = <<>> THEN path
    ELSE IF config.stack = <<>> THEN path
    ELSE walk_apply(P, config, path, steps_left,
                    get_applicable_transitions(P, config.state,
                        IF config.remaining_input # <<>>
                        THEN Head(config.remaining_input) ELSE None,
                        Head(config.stack)))

PDA_simulate_step_by_step(P, input_string, max_steps) ==
    IF P.start_state = None THEN <<>>
    ELSE walk_loop(P,
             PDAConfiguration(P.start_state, input_string, <<P.start_stack_symbol>>),
             <<<<PDAConfiguration(P.start_state, input_string, <<P.start_stack_symbol>>),
                 None>>>>,
             max_steps)

(***************************************************************************)
(* algorithms/regex_parser.py: RegexNode                                   *)
(***************************************************************************)
\* An absent child (left / right of a leaf, right of STAR and PLUS).
NoNode == [type |-> "NONE"]

RegexNode(type, value, left, right) ==
    [type |-> type, value |-> value, left |-> left, right |-> right]

Char(c) == RegexNode("CHAR", c, NoNode, NoNode)
Eps == RegexNode("EPSILON", None, NoNode, NoNode)
Concat(l, r) == RegexNode("CONCAT", None, l, r)
Or(l, r) == RegexNode("OR", None, l, r)
Star(x) == RegexNode("STAR", None, x, NoNode)
Plus(x) == RegexNode("PLUS", None, x, NoNode)

\* RegexParser: regex is the sequence of the characters of self.regex, pos is
\* self.pos; a parse method returns [node, pos], the node it built and
\* self.pos as it leaves it, or raises.
peek(regex, pos) == IF pos < Len(regex) THEN regex[pos + 1] ELSE None

Parsed(node, pos) == Ok([node |-> node, pos |-> pos])

RECURSIVE parse_or(_, _)
RECURSIVE parse_or_loop(_, _, _)
RECURSIVE parse_concat_loop(_, _, _)
RECURSIVE parse_star_loop(_, _, _)
RECURSIVE parse_base(_, _)

\* The while loop of parse_star, node being the node built so far.
parse_star_loop(regex, node, pos) ==
    IF peek(regex, pos) = "*" THEN parse_star_loop(regex, Star(node), pos + 1)
    ELSE IF peek(regex, pos) = "+" THEN parse_star_loop(regex, Plus(node), pos + 1)
    ELSE Parsed(node, pos)

parse_star(regex, pos) ==
    Try(parse_base(regex, pos), LAMBDA b : parse_star_loop(regex, b.node, b.pos))

\* The while loop of parse_concat with the fold over nodes that follows it:
\* result is the left-associative CONCAT of the nodes read so far, NoNode if none.
parse_concat_loop(regex, result, pos) ==
    IF peek(regex, pos) # None /\ peek(regex, pos) \notin {")", "|"}
    THEN Try(parse_star(regex, pos),
             LAMBDA n : parse_concat_loop(regex,
                                          IF result.type = "NONE" THEN n.node
                                          ELSE Concat(result, n.node),
                                          n.pos))
    ELSE Parsed(IF result.type = "NONE" THEN Eps ELSE result, pos)

parse_concat(regex, pos) == parse_concat_loop(regex, NoNode, pos)

\* The while loop of parse_or.
parse_or_loop(regex, left, pos) ==
    IF peek(regex, pos) = "|"
    THEN Try(parse_concat(regex, pos + 1),
             LAMBDA right : parse_or_loop(regex, Or(left, right.node), right.pos))
    ELSE Parsed(left, pos)

parse_or(regex, pos) ==
    Try(parse_concat(regex, pos), LAMBDA left : parse_or_loop(regex, left.node, left.pos))

parse_base(regex, pos) ==
    IF peek(regex, pos) = "("
    THEN Try(parse_or(regex, pos + 1),
             LAMBDA n : IF peek(regex, n.pos) = ")" THEN Parsed(n.node, n.pos + 1)
                        ELSE Raise("ValueError"))
    ELSE IF peek(regex, pos) = Epsilon THEN Parsed(Eps, pos + 1)
    ELSE IF peek(regex, pos) = "\\" /\ pos + 1 < Len(regex) /\ regex[pos + 2] = "e"
    THEN Parsed(Eps, pos + 2)
    ELSE IF peek(regex, pos) # None /\ peek(regex, pos) \notin {")", "|", "*", "+"}
    THEN Parsed(Char(peek(regex, pos)), pos + 1)
    ELSE Raise("ValueError")

\* RegexParser.parse: parse_or from position 0; what follows the expression it
\* read is not looked at.
parse(regex) == Try(parse_or(regex, 0), LAMBDA n : Ok(n.node))

\* parse_regex, with the spaces removed by RegexParser.__init__.
parse_regex(regex) ==
    IF regex = <<>> THEN Ok(Eps)
    ELSE parse(SelectSeq(regex, LAMBDA c : c # " "))

(***************************************************************************)
(* algorithms/thompson.py                                                  *)
(***************************************************************************)
ThompsonFragment(start, accept) == [start |-> start, accept |-> accept]

\* new_state: the name made from the counter after it was incremented.
new_state(state_counter) == "q" \o ToString(state_counter)

\* nfa.states[name].is_accept = False; nfa.accept_states.discard(name)
demote(N, name) ==
    [N EXCEPT !.states[name].is_accept = FALSE,
              !.accept_states = @ \ {name}]

\* start = new_state(); accept = new_state(); nfa.add_state(start);
\* nfa.add_state(accept, is_accept=True), from counter value c.
add_pair(N, c) ==
    Automaton_add_state(Automaton_add_state(N, new_state(c + 1), FALSE, FALSE),
                        new_state(c + 2), TRUE, FALSE)

\* The leaf cases: two new states joined by one transition on symbol.
leaf_fragment(b, symbol) ==
    [nfa |-> NFA_add_transition(add_pair(b.nfa, b.state_counter),
                                new_state(b.state_counter + 1),
                                new_state(b.state_counter + 2), symbol),
     state_counter |-> b.state_counter + 2,
     frag |-> ThompsonFragment(new_state(b.state_counter + 1),
                               new_state(b.state_counter + 2))]

\* concat_fragment without the demotion of the left operand's accept state.
concat_fragment_keeps_accept(l, r) ==
    [nfa |-> NFA_add_transition(r.nfa, l.frag.accept, r.frag.start, Epsilon),
     state_counter |-> r.state_counter,
     frag |-> ThompsonFragment(l.frag.start, r.frag.accept)]

\* CONCAT, after both operands were built: l and r are what build_fragment
\* returned for them, r holding the builder state reached.
concat_fragment(l, r) ==
    [nfa |-> NFA_add_transition(demote(r.nfa, l.frag.accept),
                                l.frag.accept, r.frag.start, Epsilon),
     state_counter |-> r.state_counter,
     frag |-> ThompsonFragment(l.frag.start, r.frag.accept)]

\* OR, after both operands were built.
or_fragment(l, r) ==
    LET start == new_state(r.state_counter + 1)
        accept == new_state(r.state_counter + 2)
        n3 == demote(demote(add_pair(r.nfa, r.state_counter), l.frag.accept), r.frag.accept)
        n4 == NFA_add_transition(n3, start, l.frag.start, Epsilon)
        n5 == NFA_add_transition(n4, start, r.frag.start, Epsilon)
        n6 == NFA_add_transition(n5, l.frag.accept, accept, Epsilon)
        n7 == NFA_add_transition(n6, r.frag.accept, accept, Epsilon)
    IN [nfa |-> n7, state_counter |-> r.state_counter + 2,
        frag |-> ThompsonFragment(start, accept)]

\* STAR, after the operand was built.
star_fragment(i) ==
    LET start == new_state(i.state_counter + 1)
        accept == new_state(i.state_counter + 2)
        n3 == demote(add_pair(i.nfa, i.state_counter), i.frag.accept)
        n4 == NFA_add_transition(n3, start, i.frag.start, Epsilon)
        n5 == NFA_add_transition(n4, start, accept, Epsilon)
        n6 == NFA_add_transition(n5, i.frag.accept, i.frag.start, Epsilon)
        n7 == NFA_add_transition(n6, i.frag.accept, accept, Epsilon)
    IN [nfa |-> n7, state_counter |-> i.state_counter + 2,
        frag |-> ThompsonFragment(start, accept)]

\* plus_fragment with STAR's skip edge start -> accept.
plus_fragment_with_skip(i) == star_fragment(i)

\* PLUS, after the operand was built.
plus_fragment(i) ==
    LET start == new_state(i.state_counter + 1)
        accept == new_state(i.state_counter + 2)
        n3 == demote(add_pair(i.nfa, i.state_counter), i.frag.accept)
        n4 == NFA_add_transition(n3, start, i.frag.start, Epsilon)
        n5 == NFA_add_transition(n4, i.frag.accept, i.frag.start, Epsilon)
        n6 == NFA_add_transition(n5, i.frag.accept, accept, Epsilon)
    IN [nfa |-> n6, state_counter |-> i.state_counter + 2,
        frag |-> ThompsonFragment(start, accept)]

\* build_fragment(node) run in builder state b = [nfa, state_counter]; returns
\* the builder state it leaves and the fragment.
RECURSIVE build_fragment(_, _)
build_right(node, l, Combine(_, _)) == Combine(l, build_fragment(node.right, l))

build_fragment(node, b) ==
    CASE node.type = "EPSILON" -> leaf_fragment(b, Epsilon)
      [] node.type = "CHAR" -> leaf_fragment(b, node.value)
      [] node.type = "CONCAT" ->
            build_right(node, build_fragment(node.left, b), concat_fragment)
      [] node.type = "OR" ->
            build_right(node, build_fragment(node.left, b), or_fragment)
      [] node.type = "STAR" -> star_fragment(build_fragment(node.left, b))
      [] node.type = "PLUS" -> plus_fragment(build_fragment(node.left, b))

\* The builder state after build_fragment(ast), before the start state is set.
thompson_build(node) ==
    build_fragment(node, [nfa |-> NewAutomaton("EpsilonNFA"), state_counter |-> 0])

\* nfa.start_state = fragment.start; nfa.states[fragment.start].is_start = True
set_start(b) ==
    [b.nfa EXCEPT !.start_state = b.frag.start,
                  !.states[b.frag.start].is_start = TRUE]

\* thompson_construction, from the AST parse_regex returned.
thompson_construction(node) == set_start(thompson_build(node))

(***************************************************************************)
(* algorithms/subset_construction.py                                       *)
(***************************************************************************)
\* nfa.get_transitions(state, symbol): NFA and EpsilonNFA define
\* get_next_states and no get_transitions, so the attribute lookup raises.
NFA_get_transitions(N, state, symbol) == Raise("AttributeError")

\* The results of the calls of one loop, joined: their union, or the
\* exception one of them raised.
joined(got) ==
    IF \E r \in got : ~IsOk(r)
    THEN CHOOSE r \in got : ~IsOk(r)
    ELSE Ok(UNION {r.value : r \in got})

\* next_states = set(); for s in S: next_states.update(nfa.get_transitions(s, symbol))
moves(N, S, symbol) == joined({NFA_get_transitions(N, s, symbol) : s \in S})

\* The while loop of epsilon_closure: stack is popped at its end.
RECURSIVE epsilon_closure_loop(_, _, _)
epsilon_closure_loop(N, closure, stack) ==
    IF stack = <<>> THEN Ok(closure)
    ELSE Try(NFA_get_transitions(N, stack[Len(stack)], Epsilon),
             LAMBDA got : epsilon_closure_loop(N, closure \cup got,
                              SubSeq(stack, 1, Len(stack) - 1) \o Order(got \ closure)))

epsilon_closure(N, states) == epsilon_closure_loop(N, states, Order(states))

\* for name in names: nfa.add_state(name)
RECURSIVE add_states(_, _)
add_states(A, names) ==
    IF names = <<>> THEN A
    ELSE add_states(Automaton_add_state(A, Head(names), FALSE, FALSE), Tail(names))

\* for target in targets: nfa.add_transition(state, target, symbol)
RECURSIVE add_targets(_, _, _, _)
add_targets(N, state, targets, symbol) ==
    IF targets = <<>> THEN N
    ELSE add_targets(NFA_add_transition(N, state, Head(targets), symbol),
                     state, Tail(targets), symbol)

\* The loop over enfa.alphabet for one state of epsilon_nfa_to_nfa.
RECURSIVE elim_symbols(_, _, _, _, _)
elim_symbol(E, N, state, e_closure, symbols, next_states) ==
    IF next_states = {}
    THEN elim_symbols(E, N, state, e_closure, Tail(symbols))
    ELSE Try(epsilon_closure(E, next_states),
             LAMBDA final_states :
                 elim_symbols(E, add_targets(N, state, Order(final_states), Head(symbols)),
                              state, e_closure, Tail(symbols)))

elim_symbols(E, N, state, e_closure, symbols) ==
    IF symbols = <<>> THEN Ok(N)
    ELSE IF Head(symbols) = Epsilon
    THEN elim_symbols(E, N, state, e_closure, Tail(symbols))
    ELSE Try(moves(E, e_closure, Head(symbols)),
             LAMBDA next_states : elim_symbol(E, N, state, e_closure, symbols, next_states))

\* if any(s in enfa.accept_states for s in e_closure): nfa.accept_states.add(state)
mark_accepting(E, N, state, e_closure) ==
    IF \E s \in e_closure : s \in E.accept_states
    THEN [N EXCEPT !.accept_states = @ \cup {state}]
    ELSE N

\* The second loop over enfa.states of epsilon_nfa_to_nfa.
RECURSIVE elim_states(_, _, _)
elim_states(E, N, names) ==
    IF names = <<>> THEN Ok(N)
    ELSE Try(epsilon_closure(E, {Head(names)}),
             LAMBDA e_closure :
                 Try(elim_symbols(E, mark_accepting(E, N, Head(names), e_closure),
                                  Head(names), e_closure, Order(E.alphabet)),
                     LAMBDA n2 : elim_states(E, n2, Tail(names))))

epsilon_nfa_to_nfa(E) ==
    elim_states(E,
                [add_states(NewAutomaton("NFA"), Order(DOMAIN E.states))
                    EXCEPT !.start_state = E.start_state],
                Order(DOMAIN E.states))

\* get_dfa_state in builder state b = [dfa, state_map, state_counter]; returns
\* the builder state it leaves and the DFA state's name.
new_dfa_state(N, b, nfa_states, dfa_state) ==
    [b |-> [dfa |-> IF \E s \in nfa_states : s \in N.accept_states
                    THEN [Automaton_add_state(b.dfa, dfa_state, FALSE, FALSE)
                             EXCEPT !.accept_states = @ \cup {dfa_state}]
                    ELSE Automaton_add_state(b.dfa, dfa_state, FALSE, FALSE),
            state_map |-> (nfa_states :> dfa_state) @@ b.state_map,
            state_counter |-> b.state_counter + 1],
     name |-> dfa_state]

get_dfa_state(N, b, nfa_states) ==
    IF nfa_states \in DOMAIN b.state_map
    THEN [b |-> b, name |-> b.state_map[nfa_states]]
    ELSE new_dfa_state(N, b, nfa_states, "q" \o ToString(b.state_counter + 1))

\* The loop over nfa.alphabet for one dequeued subset; c = [b, queue].
RECURSIVE subset_symbols(_, _, _, _, _, _)
subset_edge(N, c, current_set, current_dfa_state, processed, symbols, next_state_set, g) ==
    Try(DFA_add_transition(g.b.dfa, current_dfa_state, g.name, Head(symbols)),
        LAMBDA added :
            subset_symbols(N,
                [b |-> [g.b EXCEPT !.dfa = added],
                 queue |-> IF next_state_set \notin processed
                           THEN Append(c.queue, next_state_set)
                           ELSE c.queue],
                current_set, current_dfa_state, processed, Tail(symbols)))

subset_symbol(N, c, current_set, current_dfa_state, processed, symbols, next_states) ==
    IF next_states = {}
    THEN subset_symbols(N, c, current_set, current_dfa_state, processed, Tail(symbols))
    ELSE subset_edge(N, c, current_set, current_dfa_state, processed, symbols,
                     next_states, get_dfa_state(N, c.b, next_states))

subset_symbols(N, c, current_set, current_dfa_state, processed, symbols) ==
    IF symbols = <<>> THEN Ok(c)
    ELSE Try(moves(N, current_set, Head(symbols)),
             LAMBDA next_states :
                 subset_symbol(N, c, current_set, current_dfa_state, processed,
                               symbols, next_states))

\* The while loop of nfa_to_dfa.
RECURSIVE subset_loop(_, _, _, _)
subset_expand(N, queue, processed, current_set, g) ==
    Try(subset_symbols(N, [b |-> g.b, queue |-> Tail(queue)], current_set, g.name,
                       processed \cup {current_set}, Order(N.alphabet)),
        LAMBDA c : subset_loop(N, c.b, c.queue, processed \cup {current_set}))

subset_loop(N, b, queue, processed) ==
    IF queue = <<>> THEN Ok(b.dfa)
    ELSE IF Head(queue) \in processed
    THEN subset_loop(N, b, Tail(queue), processed)
    ELSE subset_expand(N, queue, processed, Head(queue), get_dfa_state(N, b, Head(queue)))

\* dfa.start_state = get_dfa_state(start_state_set); queue = [start_state_set]
subset_start(N, start_state_set, g) ==
    subset_loop(N, [g.b EXCEPT !.dfa.start_state = g.name], <<start_state_set>>, {})

nfa_to_dfa(N) ==
    subset_start(N, {N.start_state},
                 get_dfa_state(N, [dfa |-> NewAutomaton("DFA"), state_map |-> <<>>,
                                   state_counter |-> 0],
                               {N.start_state}))

(***************************************************************************)
(* algorithms/minimization.py                                              *)
(***************************************************************************)
\* dfa.get_transition(state, symbol): DFA defines get_next_state and no
\* get_transition, so the attribute lookup raises.
DFA_get_transition(D, state, symbol) == Raise("AttributeError")

\* Python truth of an Optional[str]: None and the empty string are false.
Truthy(x) == x # None /\ x # ""

\* The loop over dfa.alphabet for one popped state of find_reachable_states.
RECURSIVE reach_symbols(_, _, _, _, _)
reach_symbols(D, state, reachable, stack, symbols) ==
    IF symbols = <<>> THEN Ok(stack)
    ELSE Try(DFA_get_transition(D, state, Head(symbols)),
             LAMBDA next_state :
                 reach_symbols(D, state, reachable,
                     IF Truthy(next_state) /\ next_state \notin reachable
                     THEN Append(stack, next_state) ELSE stack,
                     Tail(symbols)))

\* The while loop of find_reachable_states: stack is popped at its end.
RECURSIVE reach_loop(_, _, _)
reach_pop(D, reachable, state, rest) ==
    IF state \in reachable THEN reach_loop(D, reachable, rest)
    ELSE Try(reach_symbols(D, state, reachable \cup {state}, rest, Order(D.alphabet)),
             LAMBDA pushed : reach_loop(D, reachable \cup {state}, pushed))

reach_loop(D, reachable, stack) ==
    IF stack = <<>> THEN Ok(reachable)
    ELSE reach_pop(D, reachable, stack[Len(stack)], SubSeq(stack, 1, Len(stack) - 1))

find_reachable_states(D) == reach_loop(D, {}, <<D.start_state>>)

\* partition_idx: the index (from 0) of the first block holding next_state, else -1.
partition_idx(all_partitions, next_state) ==
    IF \E i \in 1..Len(all_partitions) : next_state \in all_partitions[i]
    THEN (CHOOSE i \in 1..Len(all_partitions) :
              /\ next_state \in all_partitions[i]
              /\ \A j \in 1..(i - 1) : next_state \notin all_partitions[j]) - 1
    ELSE -1

\* sig of one state: the loop over sorted(dfa.alphabet).
RECURSIVE signature(_, _, _, _)
signature(D, state, all_partitions, symbols) ==
    IF symbols = <<>> THEN Ok(<<>>)
    ELSE Try(DFA_get_transition(D, state, Head(symbols)),
             LAMBDA next_state :
                 Try(signature(D, state, all_partitions, Tail(symbols)),
                     LAMBDA rest : Ok(<<partition_idx(all_partitions, next_state)>> \o rest)))

\* signatures[sig_tuple].add(state); groups is the dict signatures as a
\* sequence of [sig, members] in insertion order.
add_to_group(groups, sig, state) ==
    IF \E i \in 1..Len(groups) : groups[i].sig = sig
    THEN [i \in 1..Len(groups) |->
             IF groups[i].sig = sig
             THEN [groups[i] EXCEPT !.members = @ \cup {state}]
             ELSE groups[i]]
    ELSE Append(groups, [sig |-> sig, members |-> {state}])

\* The loop over the states of a block in split_partition.
RECURSIVE split_states(_, _, _, _)
split_states(D, states, all_partitions, groups) ==
    IF states = <<>> THEN Ok(groups)
    ELSE Try(signature(D, Head(states), all_partitions, Sorted(D.alphabet)),
             LAMBDA sig : split_states(D, Tail(states), all_partitions,
                                       add_to_group(groups, sig, Head(states))))

split_partition(D, partition, all_partitions) ==
    IF Cardinality(partition) <= 1 THEN Ok(<<partition>>)
    ELSE Try(split_states(D, Order(partition), all_partitions, <<>>),
             LAMBDA groups : Ok([i \in 1..Len(groups) |-> groups[i].members]))

\* One pass of the refinement loop: the for loop over partitions; r = [new_partitions, changed].
RECURSIVE refine_pass(_, _, _, _)
refine_pass(D, partitions, i, r) ==
    IF i > Len(partitions) THEN Ok(r)
    ELSE Try(split_partition(D, partitions[i], partitions),
             LAMBDA split :
                 IF Len(split) > 1
                 THEN refine_pass(D, partitions, i + 1,
                          [new_partitions |-> r.new_partitions \o split, changed |-> TRUE])
                 ELSE refine_pass(D, partitions, i + 1,
                          [r EXCEPT !.new_partitions = Append(@, partitions[i])]))

\* while changed: ...
RECURSIVE refine(_, _)
refine(D, partitions) ==
    Try(refine_pass(D, partitions, 1, [new_partitions |-> <<>>, changed |-> FALSE]),
        LAMBDA r : IF r.changed THEN refine(D, r.new_partitions)
                   ELSE Ok(r.new_partitions))

\* The initial partition: the accepting block, then the non-accepting block.
initial_partitions(D, reachable) ==
    (IF D.accept_states \cap reachable # {} THEN <<D.accept_states \cap reachable>> ELSE <<>>)
    \o (IF reachable \ D.accept_states # {} THEN <<reachable \ D.accept_states>> ELSE <<>>)

\* The partitions minimize_dfa hands to build_minimized_dfa.
final_partitions(D) ==
    Try(find_reachable_states(D),
        LAMBDA reachable : refine(D, initial_partitions(D, reachable)))

\* First loop of build_minimized_dfa; m = [minimized, state_map].
RECURSIVE build_states(_, _, _, _)
build_state(D, partition, rep, m) ==
    [minimized |-> IF \E state \in partition : state \in D.accept_states
                   THEN [Automaton_add_state(m.minimized, rep, FALSE, FALSE)
                            EXCEPT !.accept_states = @ \cup {rep}]
                   ELSE Automaton_add_state(m.minimized, rep, FALSE, FALSE),
     state_map |-> [state \in partition |-> rep] @@ m.state_map]

build_states(D, partitions, i, m) ==
    IF i > Len(partitions) THEN m
    ELSE build_states(D, partitions, i + 1,
                      build_state(D, partitions[i], "q" \o ToString(i - 1), m))

\* The loop over original_dfa.alphabet for one block; t = [minimized, added_transitions].
RECURSIVE build_symbols(_, _, _, _, _, _)
build_edge(D, state_map, rep_state, sample_state, symbols, t, next_state) ==
    IF ~Truthy(next_state)
    THEN build_symbols(D, state_map, rep_state, sample_state, Tail(symbols), t)
    ELSE IF next_state \notin DOMAIN state_map THEN Raise("KeyError")
    ELSE IF <<rep_state, Head(symbols)>> \in t.added_transitions
    THEN build_symbols(D, state_map, rep_state, sample_state, Tail(symbols), t)
    ELSE Try(DFA_add_transition(t.minimized, rep_state, state_map[next_state], Head(symbols)),
             LAMBDA added :
                 build_symbols(D, state_map, rep_state, sample_state, Tail(symbols),
                     [minimized |-> added,
                      added_transitions |->
                          t.added_transitions \cup {<<rep_state, Head(symbols)>>}]))

build_symbols(D, state_map, rep_state, sample_state, symbols, t) ==
    IF symbols = <<>> THEN Ok(t)
    ELSE Try(DFA_get_transition(D, sample_state, Head(symbols)),
             LAMBDA next_state :
                 build_edge(D, state_map, rep_state, sample_state, symbols, t, next_state))

\* Second loop of build_minimized_dfa: sample_state = next(iter(partition)).
RECURSIVE build_transitions(_, _, _, _, _)
build_block(D, partitions, state_map, i, t, sample_state) ==
    Try(build_symbols(D, state_map, state_map[sample_state], sample_state,
                      Order(D.alphabet), t),
        LAMBDA t2 : build_transitions(D, partitions, state_map, i + 1, t2))

build_transitions(D, partitions, state_map, i, t) ==
    IF i > Len(partitions) THEN Ok(t.minimized)
    ELSE build_block(D, partitions, state_map, i, t, Head(Order(partitions[i])))

\* minimized.start_state = state_map[original_dfa.start_state], then the second loop.
build_from(D, partitions, m) ==
    IF D.start_state \notin DOMAIN m.state_map THEN Raise("KeyError")
    ELSE build_transitions(D, partitions, m.state_map, 1,
             [minimized |-> [m.minimized EXCEPT !.start_state = m.state_map[D.start_state]],
              added_transitions |-> {}])

build_minimized_dfa(D, partitions) ==
    build_from(D, partitions,
               build_states(D, partitions, 1,
                            [minimized |-> NewAutomaton("DFA"), state_map |-> <<>>]))

minimize_dfa(D) ==
    Try(final_partitions(D), LAMBDA partitions : build_minimized_dfa(D, partitions))

(***************************************************************************)
(* algorithms/conversions.py                                               *)
(***************************************************************************)
\* mealy.output_function, moore.output_function: MealyMachine and MooreMachine
\* define no attribute of that name, so the attribute lookup raises.
output_function(M) == Raise("AttributeError")

\* moore.add_state(moore_state, output=output): MooreMachine.add_state takes
\* name, is_accept and is_start and no keyword output, so the call raises.
add_state_with_output(M, name, output) == Raise("TypeError")

\* machine.transitions.items(): transitions is a list, which has no items.
transitions_items(M) == Raise("AttributeError")

\* outputs of one state: the loop over mealy.alphabet.
RECURSIVE outputs_of(_, _, _, _)
outputs_of(M, state, symbols, outputs) ==
    IF symbols = <<>> THEN Ok(outputs)
    ELSE Try(output_function(M),
             LAMBDA f : outputs_of(M, state, Tail(symbols),
                            IF <<state, Head(symbols)>> \in DOMAIN f
                            THEN outputs \cup {f[<<state, Head(symbols)>>]}
                            ELSE outputs))

\* for output in outputs: moore.add_state(f"{state}_{output}", output=output); b = [moore, state_map].
RECURSIVE split_state(_, _, _)
split_state(b, state, outputs) ==
    IF outputs = <<>> THEN Ok(b)
    ELSE Try(add_state_with_output(b.moore, state \o "_" \o Head(outputs), Head(outputs)),
             LAMBDA added :
                 split_state([moore |-> added,
                              state_map |-> (<<state, Head(outputs)>> :>
                                                 (state \o "_" \o Head(outputs))) @@ b.state_map],
                             state, Tail(outputs)))

\* The branch of the first loop for a state and its outputs.
moore_states_for(b, state, outputs) ==
    IF outputs = {}
    THEN Try(add_state_with_output(b.moore, state, None),
             LAMBDA added : Ok([moore |-> added,
                                state_map |-> (<<state, None>> :> state) @@ b.state_map]))
    ELSE split_state(b, state, Order(outputs))

\* The first loop of mealy_to_moore, over mealy.states.
RECURSIVE create_states(_, _, _)
create_states(M, b, names) ==
    IF names = <<>> THEN Ok(b)
    ELSE Try(outputs_of(M, Head(names), Order(M.alphabet), {}),
             LAMBDA outputs :
                 Try(moore_states_for(b, Head(names), outputs),
                     LAMBDA b2 : create_states(M, b2, Tail(names))))

\* The output of the first transition found from state, or None: the loops
\* over mealy.alphabet that stop at a break.
RECURSIVE first_output(_, _, _)
first_output(M, state, symbols) ==
    IF symbols = <<>> THEN Ok(None)
    ELSE Try(output_function(M),
             LAMBDA f : IF <<state, Head(symbols)>> \in DOMAIN f
                        THEN Ok(f[<<state, Head(symbols)>>])
                        ELSE first_output(M, state, Tail(symbols)))

\* One pass of the last loop of mealy_to_moore: item = <<<<from_state, symbol>>, to_state>>.
moore_edge(M, b, item, f, next_output) ==
    IF <<item[1][1], IF item[1] \in DOMAIN f THEN f[item[1]] ELSE None>> \notin DOMAIN b.state_map
       \/ <<item[2], next_output>> \notin DOMAIN b.state_map
    THEN Raise("KeyError")
    ELSE MooreMachine_add_transition(
             b.moore,
             b.state_map[<<item[1][1], IF item[1] \in DOMAIN f THEN f[item[1]] ELSE None>>],
             b.state_map[<<item[2], next_output>>], item[1][2], None)

\* The last loop of mealy_to_moore, over mealy.transitions.items().
RECURSIVE moore_edges(_, _, _)
moore_edges(M, b, items) ==
    IF items = <<>> THEN Ok(b.moore)
    ELSE Try(output_function(M),
             LAMBDA f :
                 Try(first_output(M, Head(items)[2], Order(M.alphabet)),
                     LAMBDA next_output :
                         Try(moore_edge(M, b, Head(items), f, next_output),
                             LAMBDA added : moore_edges(M, [b EXCEPT !.moore = added],
                                                        Tail(items)))))

\* mealy_to_moore from `moore.start_state = state_map[...]` on.
moore_from(M, b, start_output) ==
    IF <<M.start_state, start_output>> \notin DOMAIN b.state_map
    THEN Raise("KeyError")
    ELSE Try(transitions_items(M),
             LAMBDA items :
                 moore_edges(M, [b EXCEPT !.moore.start_state =
                                              b.state_map[<<M.start_state, start_output>>]],
                             items))

mealy_to_moore(M) ==
    Try(create_states(M, [moore |-> NewMooreMachine, state_map |-> <<>>],
                      Order(DOMAIN M.states)),
        LAMBDA b : Try(first_output(M, M.start_state, Order(M.alphabet)),
                       LAMBDA start_output : moore_from(M, b, start_output)))

\* The loop of moore_to_mealy, over moore.transitions.items().
RECURSIVE mealy_edges(_, _, _)
mealy_edges(M, mealy_machine, items) ==
    IF items = <<>> THEN Ok(mealy_machine)
    ELSE Try(MealyMachine_add_transition(mealy_machine, Head(items)[1][1], Head(items)[2],
                                         Head(items)[1][2], None),
             LAMBDA added :
                 Try(output_function(M),
                     LAMBDA f : mealy_edges(M, added, Tail(items))))

moore_to_mealy(M) ==
    Try(transitions_items(M),
        LAMBDA items :
            mealy_edges(M, [add_states(NewMealyMachine, Order(DOMAIN M.states))
                               EXCEPT !.start_state = M.start_state],
                        items))

(***************************************************************************)
(* Bounds and input sets                                                   *)
(***************************************************************************)
MaxNodes == 4
MaxLen == 3
MaxTransitions == 2
MaxRegex == 4

Chars == {"a", "b"}
Words == UNION {[1..k -> Chars] : k \in 0..MaxLen}

RECURSIVE ASTsOfSize(_)
ASTsOfSize(n) ==
    IF n = 1 THEN {Char(c) : c \in Chars} \cup {Eps}
    ELSE {Star(x) : x \in ASTsOfSize(n - 1)} \cup {Plus(x) : x \in ASTsOfSize(n - 1)}
         \cup UNION {{Concat(l, r) : l \in ASTsOfSize(k), r \in ASTsOfSize(n - 1 - k)}
                     \cup {Or(l, r) : l \in ASTsOfSize(k), r \in ASTsOfSize(n - 1 - k)}
                     : k \in 1..(n - 2)}

\* The regexes of tests/test_thompson.py and tests/test_subset_construction.py,
\* as parse_regex builds them: "(a|b)*abb", "a*b", "a*b+".
AbbAST == Concat(Concat(Concat(Star(Or(Char("a"), Char("b"))), Char("a")), Char("b")), Char("b"))
TestASTs == {AbbAST, Concat(Star(Char("a")), Char("b")), Concat(Star(Char("a")), Plus(Char("b")))}

RegexASTs == UNION {ASTsOfSize(n) : n \in 1..MaxNodes} \cup TestASTs

\* An automaton as a caller builds it: add_state for each name, then
\* add_transition for each <<from, to, symbol>>.
RECURSIVE add_named_states(_, _, _, _)
add_named_states(A, names, start, accepting) ==
    IF names = <<>> THEN A
    ELSE add_named_states(
             Automaton_add_state(A, Head(names), Head(names) \in accepting, Head(names) = start),
             Tail(names), start, accepting)

RECURSIVE add_all(_, _)
add_all(A, trans) ==
    IF trans = <<>> THEN A
    ELSE add_all(add_transition(A, Head(trans)[1], Head(trans)[2], Head(trans)[3]).value,
                 Tail(trans))

Built(kind, names, start, accepting, trans) ==
    add_all(add_named_states(NewAutomaton(kind), names, start, accepting), trans)

Names == {"q0", "q1"}
NameSeq == <<"q0", "q1">>

\* The DFAs over q0, q1 and a, b: every partial transition function, every accept set.
SmallDFAs ==
    {Built("DFA", NameSeq, "q0", acc, Order({<<k[1], f[k], k[2]>> : k \in DOMAIN f})) :
         acc \in SUBSET Names,
         f \in UNION {[K -> Names] : K \in SUBSET (Names \X Chars)}}

\* tests/test_minimization.py: test_minimize_already_minimal, test_minimize_simple_dfa.
MinimalDFA ==
    Built("DFA", NameSeq, "q0", {"q1"}, <<<<"q0", "q1", "a">>, <<"q1", "q0", "a">>>>)
FiveStateDFA ==
    Built("DFA", <<"q0", "q1", "q2", "q3", "q4">>, "q0", {"q3", "q4"},
          << <<"q0", "q1", "0">>, <<"q0", "q2", "1">>, <<"q1", "q3", "0">>, <<"q1", "q2", "1">>,
             <<"q2", "q1", "0">>, <<"q2", "q4", "1">>, <<"q3", "q3", "0">>, <<"q3", "q3", "1">>,
             <<"q4", "q4", "0">>, <<"q4", "q4", "1">> >>)

\* The input strings of test_minimize_simple_dfa.
TestWords ==
    {<<"0", "0">>, <<"0", "1">>, <<"1", "0">>, <<"1", "1">>, <<"0", "0", "0">>, <<"1", "0", "1">>}

\* tests/test_subset_construction.py: test_nfa_to_dfa_simple.
TestNFA ==
    Built("NFA", <<"q0", "q1", "q2">>, "q0", {"q2"},
          <<<<"q0", "q1", "a">>, <<"q0", "q1", "b">>, <<"q1", "q2", "a">>>>)

\* The NFAs over q0, q1 and a, b: every set of transitions, every accept set.
SmallNFAs ==
    {Built("NFA", NameSeq, "q0", acc, Order(T)) :
         acc \in SUBSET Names, T \in SUBSET (Names \X Names \X Chars)}

\* The epsilon-NFAs over q0, q1 and a, epsilon.
SmallENFAs ==
    {Built("EpsilonNFA", NameSeq, "q0", acc, Order(T)) :
         acc \in SUBSET Names, T \in SUBSET (Names \X Names \X {"a", Epsilon})}

\* Outputs handed to add_transition and set_state_output.
Outputs == {"x", "y"}

\* The deepest stack the search of PDA.accepts is followed to.
MaxStack == MaxLen + 1

\* A PDA as a caller builds it: add_state for each name, then add_pda_transition
\* for each <<from, to, input symbol, pop, push>>.
RECURSIVE add_all_pda(_, _)
add_all_pda(P, trans) ==
    IF trans = <<>> THEN P
    ELSE add_all_pda(add_pda_transition(P, Head(trans)[1], Head(trans)[2], Head(trans)[3],
                                        Head(trans)[4], Head(trans)[5]),
                     Tail(trans))

BuiltPDA(names, start, accepting, trans) ==
    add_all_pda(add_named_states(NewPDA, names, start, accepting), trans)

PdaInputs == {"a", Epsilon}
PdaPushes == {<<>>, <<"Z">>, <<"Z", "Z">>}
PdaPool == Names \X Names \X PdaInputs \X {"Z"} \X PdaPushes

\* The sets of at most n transitions of the pool.
RECURSIVE PdaSetsUpTo(_)
PdaSetsUpTo(n) ==
    IF n = 0 THEN {{}}
    ELSE PdaSetsUpTo(n - 1) \cup {T \cup {t} : T \in PdaSetsUpTo(n - 1), t \in PdaPool}

\* The PDAs over q0 (start), q1 (accepting) with at most MaxTransitions transitions.
SmallPDAs == {BuiltPDA(NameSeq, "q0", {"q1"}, Order(T)) : T \in PdaSetsUpTo(MaxTransitions)}

\* A PDA for a^n b^n (n >= 0), accepting by final state q2.
AnBnPDA ==
    BuiltPDA(<<"q0", "q1", "q2">>, "q0", {"q2"},
             << <<"q0", "q0", "a", "Z", <<"A", "Z">> >>, <<"q0", "q0", "a", "A", <<"A", "A">> >>,
                <<"q0", "q1", "b", "A", <<>> >>, <<"q1", "q1", "b", "A", <<>> >>,
                <<"q1", "q2", Epsilon, "Z", <<"Z">> >>, <<"q0", "q2", Epsilon, "Z", <<"Z">> >> >>)

\* A PDA whose only transition is a push-only epsilon loop on the start state.
PushLoopPDA ==
    BuiltPDA(NameSeq, "q0", {"q1"}, << <<"q0", "q0", Epsilon, "Z", <<"Z", "Z">> >> >>)

(***************************************************************************)
(* Building an automaton: add_state and add_transition calls               *)
(***************************************************************************)
\* The value a call returned, or old if it raised.
ValueOr(r, old) == IF IsOk(r) THEN r.value ELSE old

NoCall == [op |-> "", raised |-> ""]
BuildSymbols == {"a", Epsilon}

InitBuild ==
    /\ obj \in {NewAutomaton("DFA"), NewAutomaton("NFA")}
    /\ last = NoCall
    /\ ast = NoNode /\ w = <<>>
    /\ enfa = Absent /\ nfa = Absent /\ dfa = Absent /\ mdfa = Absent /\ mdfa2 = Absent
    /\ pc = "" /\ exc = ""
    /\ moore = Absent /\ mealy = Absent /\ search = NoSearch

\* The output arguments add_transition is called with on an object of a class.
OutputsOf(kind) ==
    CASE kind = "MealyMachine" -> Outputs \cup {None}
      [] kind = "MooreMachine" -> {None}
      [] OTHER -> {None}

AddState ==
    /\ obj # Absent /\ pc = ""
    /\ \E name \in Names, is_accept \in BOOLEAN, is_start \in BOOLEAN :
           obj' = Automaton_add_state(obj, name, is_accept, is_start)
    /\ last' = [op |-> "add_state", raised |-> ""]
    /\ UNCHANGED <<moore, mealy, search, ast, w, enfa, nfa, dfa, mdfa, mdfa2, pc, exc>>

AddTransition ==
    /\ obj # Absent /\ pc = ""
    /\ \E from_state \in Names, to_state \in Names, symbol \in BuildSymbols,
          output \in OutputsOf(obj.kind) :
           \E r \in {add_output_transition(obj, from_state, to_state, symbol, output)} :
              /\ Len(obj.transitions) < MaxTransitions \/ ~IsOk(r)
              /\ obj' = After(r)
              /\ last' = [op |-> "add_transition", raised |-> r.raised]
    /\ UNCHANGED <<moore, mealy, search, ast, w, enfa, nfa, dfa, mdfa, mdfa2, pc, exc>>

\* validate() on the object under construction; it assigns nothing.
Validate ==
    /\ obj # Absent /\ pc = ""
    /\ last' = [op |-> "validate", raised |-> "", result |-> validate(obj)]
    /\ UNCHANGED <<obj, moore, mealy, search, ast, w, enfa, nfa, dfa, mdfa, mdfa2, pc, exc>>

Next == AddState \/ AddTransition \/ Validate

Spec == InitBuild /\ [][Next]_vars

(***************************************************************************)
(* Building and converting Mealy and Moore machines                        *)
(***************************************************************************)
InitMachine ==
    /\ last = NoCall
    /\ ast = NoNode /\ w = <<>>
    /\ enfa = Absent /\ nfa = Absent /\ dfa = Absent /\ mdfa = Absent /\ mdfa2 = Absent
    /\ pc = "" /\ exc = ""
    /\ moore = Absent /\ mealy = Absent /\ search = NoSearch

\* add_state as the tests call it on a machine: is_accept left at its default.
AddMachineState ==
    /\ pc = ""
    /\ \E name \in Names, is_start \in BOOLEAN :
           obj' = Automaton_add_state(obj, name, FALSE, is_start)
    /\ last' = [op |-> "add_state", raised |-> ""]
    /\ UNCHANGED <<moore, mealy, search, ast, w, enfa, nfa, dfa, mdfa, mdfa2, pc, exc>>

MachineSymbols == {"a", "b"}

\* Input strings for Mealy and Moore machines.
MachineWords == UNION {[1..k -> MachineSymbols] : k \in 0..MaxLen}

AddMachineTransition ==
    /\ pc = ""
    /\ \E from_state \in Names, to_state \in Names, symbol \in MachineSymbols,
          output \in OutputsOf(obj.kind) :
           \E r \in {add_output_transition(obj, from_state, to_state, symbol, output)} :
              /\ Len(obj.transitions) < MaxTransitions \/ ~IsOk(r)
              /\ obj' = After(r)
              /\ last' = [op |-> "add_transition", raised |-> r.raised]
    /\ UNCHANGED <<moore, mealy, search, ast, w, enfa, nfa, dfa, mdfa, mdfa2, pc, exc>>

SetStateOutput ==
    /\ obj.kind = "MooreMachine" /\ pc = ""
    /\ \E state \in Names, output \in Outputs :
           \E r \in {MooreMachine_set_state_output(obj, state, output)} :
              /\ obj' = After(r)
              /\ last' = [op |-> "set_state_output", raised |-> r.raised]
    /\ UNCHANGED <<moore, mealy, search, ast, w, enfa, nfa, dfa, mdfa, mdfa2, pc, exc>>

MealyToMoore ==
    /\ obj.kind = "MealyMachine" /\ moore = Absent /\ exc = ""
    /\ \E r \in {mealy_to_moore(obj)} :
           /\ moore' = ValueOr(r, moore)
           /\ pc' = "mealy_to_moore"
           /\ exc' = r.raised
    /\ UNCHANGED <<obj, last, mealy, search, ast, w, enfa, nfa, dfa, mdfa, mdfa2>>

\* moore_to_mealy on what mealy_to_moore returned, or on a Moore machine as built.
MooreToMealy ==
    /\ mealy = Absent /\ exc = ""
    /\ moore # Absent \/ obj.kind = "MooreMachine"
    /\ \E r \in {moore_to_mealy(IF moore # Absent THEN moore ELSE obj)} :
           /\ mealy' = ValueOr(r, mealy)
           /\ pc' = "moore_to_mealy"
           /\ exc' = r.raised
    /\ UNCHANGED <<obj, last, moore, search, ast, w, enfa, nfa, dfa, mdfa, mdfa2>>

InitMealy == obj = NewMealyMachine /\ InitMachine
NextMealy == AddMachineState \/ AddMachineTransition \/ Validate \/ MealyToMoore
SpecMealy == InitMealy /\ [][NextMealy]_vars

InitMoore == obj = NewMooreMachine /\ InitMachine
NextMoore ==
    AddMachineState \/ AddMachineTransition \/ SetStateOutput \/ Validate \/ MooreToMealy
SpecMoore == InitMoore /\ [][NextMoore]_vars

(***************************************************************************)
(* Running PDA.accepts                                                     *)
(***************************************************************************)
InitPDA ==
    /\ \/ obj \in SmallPDAs \cup {PushLoopPDA} /\ w \in UNION {[1..k -> {"a"}] : k \in 0..MaxLen}
       \/ obj = AnBnPDA /\ w \in Words
    /\ last = NoCall
    /\ ast = NoNode
    /\ enfa = Absent /\ nfa = Absent /\ dfa = Absent /\ mdfa = Absent /\ mdfa2 = Absent
    /\ pc = "" /\ exc = ""
    /\ moore = Absent /\ mealy = Absent /\ search = NoSearch

\* accepts(w) is called.
Accepts ==
    /\ obj.kind = "PDA" /\ search = NoSearch
    /\ search' = accepts_begin(obj, w)
    /\ UNCHANGED <<obj, last, moore, mealy, ast, w, enfa, nfa, dfa, mdfa, mdfa2, pc, exc>>

\* One turn of the while loop of accepts, followed as long as no stack grows
\* beyond MaxStack.
Expand ==
    /\ search.verdict = "running"
    /\ \E s \in {accepts_step(obj, search)} :
           /\ \A i \in 1..Len(s.queue) : Len(s.queue[i].stack) <= MaxStack
           /\ search' = s
    /\ UNCHANGED <<obj, last, moore, mealy, ast, w, enfa, nfa, dfa, mdfa, mdfa2, pc, exc>>

NextPDA == Accepts \/ Expand

SpecPDA == InitPDA /\ [][NextPDA]_vars


(***************************************************************************)
(* Running the conversions                                                 *)
(***************************************************************************)
NoInput ==
    /\ obj = Absent /\ last = NoCall
    /\ pc = "" /\ exc = ""
    /\ moore = Absent /\ mealy = Absent /\ search = NoSearch

InitRegex ==
    /\ ast \in RegexASTs /\ w \in Words
    /\ enfa = Absent /\ nfa = Absent /\ dfa = Absent /\ mdfa = Absent /\ mdfa2 = Absent
    /\ NoInput

InitENFA ==
    /\ ast = NoNode /\ w \in UNION {[1..k -> {"a"}] : k \in 0..MaxLen}
    /\ enfa \in SmallENFAs
    /\ nfa = Absent /\ dfa = Absent /\ mdfa = Absent /\ mdfa2 = Absent
    /\ NoInput

InitNFA ==
    /\ ast = NoNode /\ w \in Words
    /\ enfa = Absent /\ nfa \in SmallNFAs \cup {TestNFA}
    /\ dfa = Absent /\ mdfa = Absent /\ mdfa2 = Absent
    /\ NoInput

InitDFA ==
    /\ ast = NoNode /\ w \in Words \cup TestWords
    /\ enfa = Absent /\ nfa = Absent
    /\ dfa \in SmallDFAs \cup {MinimalDFA, FiveStateDFA}
    /\ mdfa = Absent /\ mdfa2 = Absent
    /\ NoInput


Thompson ==
    /\ ast # NoNode /\ enfa = Absent /\ exc = ""
    /\ enfa' = thompson_construction(ast)
    /\ pc' = "thompson_construction" /\ exc' = ""
    /\ UNCHANGED <<moore, mealy, search, obj, last, ast, w, nfa, dfa, mdfa, mdfa2>>

EliminateEpsilons ==
    /\ enfa # Absent /\ nfa = Absent /\ dfa = Absent /\ exc = ""
    /\ \E r \in {epsilon_nfa_to_nfa(enfa)} :
           /\ nfa' = ValueOr(r, nfa)
           /\ pc' = "epsilon_nfa_to_nfa"
           /\ exc' = r.raised
    /\ UNCHANGED <<moore, mealy, search, obj, last, ast, w, enfa, dfa, mdfa, mdfa2>>

\* Determinize by a nfa_to_dfa that clears the accept set of the NFA it is given.
Determinize_in_place ==
    /\ dfa = Absent /\ exc = ""
    /\ nfa # Absent \/ enfa # Absent
    /\ \E r \in {nfa_to_dfa(IF nfa # Absent THEN nfa ELSE enfa)} :
           /\ dfa' = ValueOr(r, dfa)
           /\ pc' = "nfa_to_dfa"
           /\ exc' = r.raised
    /\ nfa' = IF nfa # Absent THEN [nfa EXCEPT !.accept_states = {}] ELSE nfa
    /\ UNCHANGED <<moore, mealy, search, obj, last, ast, w, enfa, mdfa, mdfa2>>

\* nfa_to_dfa on the NFA, or (as test_core.py calls it) on the epsilon-NFA itself.
Determinize ==
    /\ dfa = Absent /\ exc = ""
    /\ nfa # Absent \/ enfa # Absent
    /\ \E r \in {nfa_to_dfa(IF nfa # Absent THEN nfa ELSE enfa)} :
           /\ dfa' = ValueOr(r, dfa)
           /\ pc' = "nfa_to_dfa"
           /\ exc' = r.raised
    /\ UNCHANGED <<moore, mealy, search, obj, last, ast, w, enfa, nfa, mdfa, mdfa2>>

Minimize ==
    /\ dfa # Absent /\ mdfa = Absent /\ exc = ""
    /\ \E r \in {minimize_dfa(dfa)} :
           /\ mdfa' = ValueOr(r, mdfa)
           /\ pc' = "minimize_dfa"
           /\ exc' = r.raised
    /\ UNCHANGED <<moore, mealy, search, obj, last, ast, w, enfa, nfa, dfa, mdfa2>>

MinimizeAgain ==
    /\ mdfa # Absent /\ mdfa2 = Absent /\ exc = ""
    /\ \E r \in {minimize_dfa(mdfa)} :
           /\ mdfa2' = ValueOr(r, mdfa2)
           /\ pc' = "minimize_dfa again"
           /\ exc' = r.raised
    /\ UNCHANGED <<moore, mealy, search, obj, last, ast, w, enfa, nfa, dfa, mdfa>>

NextRegex == Thompson \/ EliminateEpsilons \/ Determinize \/ Minimize \/ MinimizeAgain
SpecRegex == InitRegex /\ [][NextRegex]_vars

NextENFA == EliminateEpsilons \/ Determinize \/ Minimize \/ MinimizeAgain
SpecENFA == InitENFA /\ [][NextENFA]_vars

NextNFA == Determinize \/ Minimize \/ MinimizeAgain
SpecNFA == InitNFA /\ [][NextNFA]_vars

NextDFA == Minimize \/ MinimizeAgain
SpecDFA == InitDFA /\ [][NextDFA]_vars

(***************************************************************************)
(* Alphabets: transitions added to a fresh object of each class, and the   *)
(* conversions run from a regex                                            *)
(***************************************************************************)
InitAlphabet ==
    /\ \/ /\ obj \in {NewAutomaton("DFA"), NewAutomaton("NFA"), NewAutomaton("EpsilonNFA"),
                      NewPDA, NewMealyMachine, NewMooreMachine}
          /\ ast = NoNode
       \/ /\ obj = Absent
          /\ ast \in RegexASTs
    /\ w = <<>>
    /\ last = NoCall
    /\ enfa = Absent /\ nfa = Absent /\ dfa = Absent /\ mdfa = Absent /\ mdfa2 = Absent
    /\ pc = "" /\ exc = ""
    /\ moore = Absent /\ mealy = Absent /\ search = NoSearch

AddPdaTransition ==
    /\ obj.kind = "PDA" /\ Len(obj.transitions) < MaxTransitions
    /\ \E from_state \in {"q0"}, to_state \in Names, input_symbol \in PdaInputs,
          stack_pop \in {"Z", "A"}, stack_push \in {<<>>, <<"A", "Z">>, <<Epsilon>>} :
           obj' = add_pda_transition(obj, from_state, to_state, input_symbol,
                                     stack_pop, stack_push)
    /\ last' = [op |-> "add_pda_transition", raised |-> ""]
    /\ UNCHANGED <<moore, mealy, search, ast, w, enfa, nfa, dfa, mdfa, mdfa2, pc, exc>>

NextAlphabet ==
    \/ AddTransition \/ AddPdaTransition
    \/ Thompson \/ EliminateEpsilons \/ Determinize \/ Minimize \/ MinimizeAgain

SpecAlphabet == InitAlphabet /\ [][NextAlphabet]_vars

(***************************************************************************)
(* Machines built through the API, as inputs                               *)
(***************************************************************************)
\* trans holds <<from_state, to_state, symbol, output>> per add_transition call.
RECURSIVE add_all_outputs(_, _)
add_all_outputs(M, trans) ==
    IF trans = <<>> THEN M
    ELSE add_all_outputs(After(add_output_transition(M, Head(trans)[1], Head(trans)[2],
                                                     Head(trans)[3], Head(trans)[4])),
                         Tail(trans))

RECURSIVE set_all_outputs(_, _)
set_all_outputs(M, outs) ==
    IF outs = <<>> THEN M
    ELSE set_all_outputs(After(MooreMachine_set_state_output(M, Head(outs)[1], Head(outs)[2])),
                         Tail(outs))

\* The Mealy machines over q0 (start), q1 and a, b: every partial function from
\* (state, symbol) to (next state, output).
SmallMealys ==
    {add_all_outputs(add_named_states(NewMealyMachine, NameSeq, "q0", {}),
                     Order({<<k[1], f[k][1], k[2], f[k][2]>> : k \in DOMAIN f})) :
         f \in UNION {[K -> Names \X Outputs] : K \in SUBSET (Names \X MachineSymbols)}}

\* The Moore machines over q0 (start), q1 and a, b: every partial transition
\* function, every partial assignment of outputs to states.
SmallMoores ==
    {set_all_outputs(
         add_all_outputs(add_named_states(NewMooreMachine, NameSeq, "q0", {}),
                         Order({<<k[1], f[k], k[2], None>> : k \in DOMAIN f})),
         Order({<<s, g[s]>> : s \in DOMAIN g})) :
         f \in UNION {[K -> Names] : K \in SUBSET (Names \X MachineSymbols)},
         g \in UNION {[S -> Outputs] : S \in SUBSET Names}}

(***************************************************************************)
(* Each conversion called on an automaton built through the API            *)
(***************************************************************************)
InitConvert ==
    /\ \/ enfa \in SmallENFAs /\ nfa = Absent /\ dfa = Absent /\ obj = Absent
       \/ enfa = Absent /\ nfa \in SmallNFAs /\ dfa = Absent /\ obj = Absent
       \/ enfa = Absent /\ nfa = Absent /\ dfa \in SmallDFAs /\ obj = Absent
       \/ enfa = Absent /\ nfa = Absent /\ dfa = Absent /\ obj \in SmallMealys \cup SmallMoores
    /\ mdfa = Absent /\ mdfa2 = Absent
    /\ ast = NoNode /\ w = <<>>
    /\ last = NoCall
    /\ pc = "" /\ exc = ""
    /\ moore = Absent /\ mealy = Absent /\ search = NoSearch

NextConvert ==
    EliminateEpsilons \/ Determinize \/ Minimize \/ MealyToMoore \/ MooreToMealy

SpecConvert == InitConvert /\ [][NextConvert]_vars

(***************************************************************************)
(* parse_regex on a string                                                 *)
(***************************************************************************)
RegexChars == {"a", "|", "*", "(", ")"}

\* The regexes of at most MaxRegex characters, as sequences of characters.
RegexStrings == UNION {[1..k -> RegexChars] : k \in 0..MaxRegex}

\* w holds the regex, ast what parse_regex returns for it.
InitParse ==
    /\ w \in RegexStrings
    /\ ast = NoNode
    /\ enfa = Absent /\ nfa = Absent /\ dfa = Absent /\ mdfa = Absent /\ mdfa2 = Absent
    /\ NoInput

ParseRegex ==
    /\ pc = ""
    /\ \E r \in {parse_regex(w)} :
           /\ ast' = ValueOr(r, ast)
           /\ pc' = "parse_regex"
           /\ exc' = r.raised
    /\ UNCHANGED <<obj, last, w, enfa, nfa, dfa, mdfa, mdfa2, moore, mealy, search>>

NextParse == ParseRegex

SpecParse == InitParse /\ [][NextParse]_vars

(***************************************************************************)
(* process_input on a Mealy or Moore machine                               *)
(***************************************************************************)
\* Method dispatch on the object's class.
process_input(A, input_string) ==
    IF A.kind = "MealyMachine" THEN MealyMachine_process_input(A, input_string)
    ELSE MooreMachine_process_input(A, input_string)

InitProcess ==
    /\ obj \in SmallMealys \cup SmallMoores
    /\ w \in MachineWords
    /\ last = NoCall
    /\ ast = NoNode
    /\ enfa = Absent /\ nfa = Absent /\ dfa = Absent /\ mdfa = Absent /\ mdfa2 = Absent
    /\ pc = "" /\ exc = ""
    /\ moore = Absent /\ mealy = Absent /\ search = NoSearch

ProcessInput ==
    /\ last = NoCall
    /\ last' = [op |-> "process_input", raised |-> "", result |-> process_input(obj, w)]
    /\ UNCHANGED <<obj, ast, w, enfa, nfa, dfa, mdfa, mdfa2, pc, exc, moore, mealy, search>>

NextProcess == ProcessInput

SpecProcess == InitProcess /\ [][NextProcess]_vars

(***************************************************************************)
(* simulate_automaton on a DFA, NFA or epsilon-NFA                         *)
(***************************************************************************)
\* The DFAs over q0 (start) and a second state named REJECT.
RejectNamedDFAs ==
    {Built("DFA", <<"q0", "REJECT">>, "q0", acc,
           Order({<<k[1], f[k], k[2]>> : k \in DOMAIN f})) :
         acc \in SUBSET {"q0", "REJECT"},
         f \in UNION {[K -> {"q0", "REJECT"}] : K \in SUBSET ({"q0", "REJECT"} \X Chars)}}

InitSimulate ==
    /\ obj \in SmallDFAs \cup RejectNamedDFAs \cup SmallNFAs \cup SmallENFAs
    /\ w \in Words
    /\ last = NoCall
    /\ ast = NoNode
    /\ enfa = Absent /\ nfa = Absent /\ dfa = Absent /\ mdfa = Absent /\ mdfa2 = Absent
    /\ pc = "" /\ exc = ""
    /\ moore = Absent /\ mealy = Absent /\ search = NoSearch

Simulate ==
    /\ last = NoCall
    /\ last' = [op |-> "simulate_automaton", raised |-> "",
                result |-> simulate_automaton(obj, w)]
    /\ UNCHANGED <<obj, ast, w, enfa, nfa, dfa, mdfa, mdfa2, pc, exc, moore, mealy, search>>

NextSimulate == Simulate

SpecSimulate == InitSimulate /\ [][NextSimulate]_vars

(***************************************************************************)
(* PDA.simulate_step_by_step and PDA.accepts on the same PDA and input     *)
(***************************************************************************)
\* The largest max_steps handed to simulate_step_by_step.
MaxSteps == MaxLen

\* The deepest stack the search is followed to beside a walk: a walk of at
\* most MaxSteps steps ends MaxSteps transitions from the initial
\* configuration, the search has by then queued configurations one transition
\* further, and no transition of the PDAs here pushes more than one symbol
\* beyond the one it pops.
MaxDepth == MaxSteps + 2

\* A PDA that reads one a into its accepting state, listed before a push-only
\* epsilon loop on the start state.
AcceptBesideLoopPDA ==
    BuiltPDA(NameSeq, "q0", {"q1"},
             << <<"q0", "q1", "a", "Z", <<"Z">> >>,
                <<"q0", "q0", Epsilon, "Z", <<"Z", "Z">> >> >>)

InitWalk ==
    /\ \/ /\ obj \in SmallPDAs \cup {PushLoopPDA, AcceptBesideLoopPDA}
          /\ w \in UNION {[1..k -> {"a"}] : k \in 0..MaxLen}
       \/ obj = AnBnPDA /\ w \in Words
    /\ last = NoCall
    /\ ast = NoNode
    /\ enfa = Absent /\ nfa = Absent /\ dfa = Absent /\ mdfa = Absent /\ mdfa2 = Absent
    /\ pc = "" /\ exc = ""
    /\ moore = Absent /\ mealy = Absent /\ search = NoSearch

\* simulate_step_by_step(w, max_steps) is called.
SimulateStepByStep ==
    /\ last = NoCall
    /\ \E max_steps \in 0..MaxSteps :
           last' = [op |-> "simulate_step_by_step", raised |-> "", max_steps |-> max_steps,
                    result |-> PDA_simulate_step_by_step(obj, w, max_steps)]
    /\ UNCHANGED <<obj, ast, w, enfa, nfa, dfa, mdfa, mdfa2, pc, exc, moore, mealy, search>>

\* One turn of the while loop of accepts, followed as long as no stack grows
\* beyond MaxDepth.
ExpandDeep ==
    /\ search.verdict = "running"
    /\ \E s \in {accepts_step(obj, search)} :
           /\ \A i \in 1..Len(s.queue) : Len(s.queue[i].stack) <= MaxDepth
           /\ search' = s
    /\ UNCHANGED <<obj, last, moore, mealy, ast, w, enfa, nfa, dfa, mdfa, mdfa2, pc, exc>>

NextWalk == SimulateStepByStep \/ Accepts \/ ExpandDeep

SpecWalk == InitWalk /\ [][NextWalk]_vars

\* accepts, once called, runs on: the call is made and every turn of its loop
\* that can be taken is taken.
SpecWalkFair == SpecWalk /\ WF_vars(Accepts) /\ WF_vars(ExpandDeep)

(***************************************************************************)
(* Reference notions the properties are stated against                     *)
(***************************************************************************)
\* The language a regex AST denotes.
RECURSIVE Matches(_, _)
Matches(node, s) ==
    CASE node.type = "CHAR" -> s = <<node.value>>
      [] node.type = "EPSILON" -> s = <<>>
      [] node.type = "CONCAT" ->
            \E k \in 0..Len(s) : /\ Matches(node.left, SubSeq(s, 1, k))
                                 /\ Matches(node.right, SubSeq(s, k + 1, Len(s)))
      [] node.type = "OR" -> Matches(node.left, s) \/ Matches(node.right, s)
      [] node.type = "STAR" ->
            \/ s = <<>>
            \/ \E k \in 1..Len(s) : /\ Matches(node.left, SubSeq(s, 1, k))
                                    /\ Matches(node, SubSeq(s, k + 1, Len(s)))
      [] node.type = "PLUS" ->
            \E k \in 0..Len(s) : /\ Matches(node.left, SubSeq(s, 1, k))
                                 /\ Matches(Star(node.left), SubSeq(s, k + 1, Len(s)))

\* The states of a DFA reachable from its start state along its transitions.
RECURSIVE ReachFrom(_, _)
ReachFrom(D, S) ==
    LET T == S \cup {D.table[k] : k \in {k \in DOMAIN D.table : k[1] \in S}}
    IN IF T = S THEN S ELSE ReachFrom(D, T)

Reachable(D) == ReachFrom(D, {D.start_state})

\* Myhill-Nerode equivalence of two states of a DFA: no suffix is accepted from
\* one and rejected from the other.  Suffixes up to the number of states (one
\* more than a DFA completed with a dead state needs) decide it.
Suffixes(D) == UNION {[1..k -> D.alphabet] : k \in 0..get_state_count(D)}
Equivalent(D, s, t) == \A u \in Suffixes(D) : DFA_walk(D, s, u) = DFA_walk(D, t, u)

SameBlock(partitions, s, t) ==
    \E i \in 1..Len(partitions) : s \in partitions[i] /\ t \in partitions[i]

(***************************************************************************)
(* Properties                                                              *)
(***************************************************************************)
\* C1: for every regex and every input string w, the machines of the pipeline
\* thompson_construction -> epsilon_nfa_to_nfa -> nfa_to_dfa -> minimize_dfa,
\* each applied to the previous one's result, all exist and agree on w.
C1_PipelineAgrees ==
    /\ pc = "epsilon_nfa_to_nfa" =>
           /\ exc = ""
           /\ NFA_accepts(nfa, w) = EpsilonNFA_accepts(enfa, w)
    /\ (pc = "nfa_to_dfa" /\ nfa # Absent) =>
           /\ exc = ""
           /\ DFA_accepts(dfa, w) = NFA_accepts(nfa, w)
    /\ (pc = "minimize_dfa" /\ nfa # Absent) =>
           /\ exc = ""
           /\ DFA_accepts(mdfa, w) = DFA_accepts(dfa, w)

\* C2: the epsilon-NFA thompson_construction returns for a regex AST accepts an
\* input string exactly when the string is in the language the regex denotes.
C2_ThompsonAcceptsLanguage ==
    (ast # NoNode /\ enfa # Absent) =>
        (EpsilonNFA_accepts(enfa, w) <=> Matches(ast, w))

\* thompson_construction ran on "(a|b)*abb" and the machine accepts "abb".
C2_Witness ==
    /\ pc = "thompson_construction"
    /\ ast = AbbAST
    /\ w = <<"a", "b", "b">>
    /\ EpsilonNFA_accepts(enfa, w)

\* C3: for every epsilon-NFA E built by add_state / add_transition and every
\* input string w, epsilon_nfa_to_nfa(E) returns an NFA that accepts w exactly
\* when E does.
C3_ElimPreservesLanguage ==
    pc = "epsilon_nfa_to_nfa" =>
        /\ nfa # Absent
        /\ NFA_accepts(nfa, w) = EpsilonNFA_accepts(enfa, w)

\* C4: for every epsilon-free NFA N with a start state and every input string
\* w, nfa_to_dfa(N) returns a DFA that accepts w exactly when N does.
C4_SubsetPreservesLanguage ==
    (pc = "nfa_to_dfa" /\ nfa # Absent) =>
        /\ dfa # Absent
        /\ DFA_accepts(dfa, w) = NFA_accepts(nfa, w)

\* C5: for every DFA D with a start state and every input string w,
\* minimize_dfa(D) returns a DFA that accepts w exactly when D does.
C5_MinimizePreservesLanguage ==
    pc = "minimize_dfa" =>
        /\ mdfa # Absent
        /\ DFA_accepts(mdfa, w) = DFA_accepts(dfa, w)

\* C6: minimize_dfa's refinement loop stops on every DFA, and then two states
\* reachable from the start state lie in the same block exactly when they are
\* Myhill-Nerode equivalent; so a DFA without equivalent reachable states
\* keeps as many states as it has reachable ones.
C6_BlocksAreNerodeClasses ==
    pc = "minimize_dfa" =>
        /\ IsOk(final_partitions(dfa))
        /\ \A s \in Reachable(dfa), t \in Reachable(dfa) :
               SameBlock(final_partitions(dfa).value, s, t) <=> Equivalent(dfa, s, t)
        /\ mdfa # Absent
        /\ (\A s \in Reachable(dfa), t \in Reachable(dfa) : Equivalent(dfa, s, t) => s = t)
               => get_state_count(mdfa) = Cardinality(Reachable(dfa))

\* C7: for every DFA D with a start state, minimize_dfa(D) returns a DFA with
\* at most as many states as D.
C7_MinimizeNeverGrows ==
    pc = "minimize_dfa" =>
        /\ exc = ""
        /\ get_state_count(mdfa) <= get_state_count(dfa)

\* C8: minimization is idempotent: for every DFA D with a start state,
\* minimize_dfa(D) and minimize_dfa(minimize_dfa(D)) are both returned, have
\* the same number of states and agree on every input string.
C8_MinimizeIdempotent ==
    /\ pc = "minimize_dfa" => IsOk(minimize_dfa(dfa)) /\ IsOk(minimize_dfa(mdfa))
    /\ pc = "minimize_dfa again" =>
           /\ mdfa2 # Absent
           /\ get_state_count(mdfa2) = get_state_count(mdfa)
           /\ \A u \in Words \cup TestWords : DFA_accepts(mdfa2, u) = DFA_accepts(mdfa, u)

\* C9: the epsilon-NFA thompson_construction returns has exactly one start state
\* and one accept state: accept_states is the singleton of the top-level
\* fragment's accept, no other state is flagged accepting (every inner
\* fragment's accept was demoted), and the start state is the top-level
\* fragment's start, the only state flagged as start.
C9_OneStartOneAccept ==
    (ast # NoNode /\ enfa # Absent) =>
        LET top == thompson_build(ast).frag
        IN /\ enfa.accept_states = {top.accept}
           /\ {s \in DOMAIN enfa.states : enfa.states[s].is_accept} = {top.accept}
           /\ enfa.start_state = top.start
           /\ {s \in DOMAIN enfa.states : enfa.states[s].is_start} = {top.start}
           /\ top.start \in DOMAIN enfa.states

\* thompson_construction ran on "(a|b)*abb": 14 states, of which the six inner
\* fragments' accepts were demoted.
C9_Witness ==
    /\ pc = "thompson_construction"
    /\ ast = AbbAST
    /\ get_state_count(enfa) = 14
    /\ enfa.accept_states = {"q14"}
    /\ enfa.start_state = "q7"

\* C10: after any sequence of add_state and add_transition calls on a DFA,
\* successful or failing, no two entries of the transitions list leave the same
\* state on the same symbol, and the lookup table holds exactly the listed
\* transitions, one target per (state, symbol).
C10_DFADeterministic ==
    obj.kind = "DFA" =>
        LET T == obj.transitions
        IN /\ \A i \in 1..Len(T), j \in 1..Len(T) :
                  (T[i].from_state = T[j].from_state /\ T[i].symbol = T[j].symbol) => i = j
           /\ DOMAIN obj.table = {<<T[i].from_state, T[i].symbol>> : i \in 1..Len(T)}
           /\ \A i \in 1..Len(T) : obj.table[<<T[i].from_state, T[i].symbol>>] = T[i].to_state

\* A DFA holding two transitions on which a third add_transition just failed.
C10_Witness ==
    /\ obj.kind = "DFA"
    /\ Len(obj.transitions) = 2
    /\ last = [op |-> "add_transition", raised |-> "ValueError"]

\* C11: on a DFA, add_transition with a (from_state, symbol) key that already
\* has a transition raises ValueError at that call and leaves the DFA as it
\* was: states, alphabet, transitions list and lookup table are unchanged, the
\* existing target included.
C11_DuplicateLeavesDFAUnchanged ==
    obj.kind = "DFA" =>
        \A from_state \in Names, to_state \in Names, symbol \in BuildSymbols :
            <<from_state, symbol>> \in DOMAIN obj.table =>
                /\ DFA_add_transition(obj, from_state, to_state, symbol).raised = "ValueError"
                /\ After(DFA_add_transition(obj, from_state, to_state, symbol)) = obj

\* A DFA with one transition, on "a", on which a second add_transition just failed.
C11_Witness ==
    /\ obj.kind = "DFA"
    /\ last = [op |-> "add_transition", raised |-> "ValueError"]
    /\ Len(obj.transitions) = 1
    /\ obj.alphabet = {"a"}

\* Each state's outgoing transitions all carry the same output.
Unambiguous(M) ==
    \A i \in 1..Len(M.transitions), j \in 1..Len(M.transitions) :
        M.transitions[i].from_state = M.transitions[j].from_state
            => M.transitions[i].output = M.transitions[j].output

\* C12: for every Mealy machine M whose states each have one output on all
\* their outgoing transitions, and every input string u,
\* moore_to_mealy(mealy_to_moore(M)) is returned and its process_input(u) gives
\* the output sequence of M.process_input(u).
C12_RoundTripPreservesOutputs ==
    (pc = "mealy_to_moore" /\ Unambiguous(obj)) =>
        /\ exc = ""
        /\ IsOk(moore_to_mealy(moore))
        /\ \A u \in MachineWords :
               MealyMachine_process_input(moore_to_mealy(moore).value, u)[2]
                   = MealyMachine_process_input(obj, u)[2]

\* C13: for every Mealy machine M and every input string u on which
\* M.process_input succeeds, mealy_to_moore(M) is returned and its
\* process_input(u) succeeds with exactly one more output than M's.
C13_MooreHasOneMoreOutput ==
    pc = "mealy_to_moore" =>
        \A u \in MachineWords :
            MealyMachine_process_input(obj, u)[1] =>
                /\ exc = ""
                /\ MooreMachine_process_input(moore, u)[1]
                /\ Len(MooreMachine_process_input(moore, u)[2])
                       = Len(MealyMachine_process_input(obj, u)[2]) + 1

\* C14: for every Moore machine M whose states all have an output,
\* moore_to_mealy(M) is returned with the state names and start state of M,
\* every transition carrying the output stored for its target, and for every
\* input string u its process_input succeeds exactly when M's does, with M's
\* output sequence less its first element.
C14_MooreToMealyKeepsStates ==
    (pc = "moore_to_mealy" /\ obj.kind = "MooreMachine"
         /\ DOMAIN obj.states \subseteq DOMAIN obj.state_outputs) =>
        /\ exc = ""
        /\ DOMAIN mealy.states = DOMAIN obj.states
        /\ mealy.start_state = obj.start_state
        /\ \A i \in 1..Len(mealy.transitions) :
               mealy.transitions[i].output = obj.state_outputs[mealy.transitions[i].to_state]
        /\ \A u \in MachineWords :
               /\ MealyMachine_process_input(mealy, u)[1] = MooreMachine_process_input(obj, u)[1]
               /\ obj.start_state # None =>
                      MealyMachine_process_input(mealy, u)[2]
                          = Tail(MooreMachine_process_input(obj, u)[2])

\* C15: for every Mealy machine M that passes validate, mealy_to_moore(M) is
\* returned and passes MooreMachine.validate, and
\* moore_to_mealy(mealy_to_moore(M)) is returned and passes validate.
C15_ConversionsKeepValid ==
    (pc = "mealy_to_moore" /\ validate(obj)[1]) =>
        /\ exc = ""
        /\ MooreMachine_validate(moore)[1]
        /\ IsOk(moore_to_mealy(moore))
        /\ validate(moore_to_mealy(moore).value)[1]

\* The configurations one applicable transition leads to from configuration c:
\* the transition leaves c's state, pops the top of c's stack, and reads the
\* next input symbol or nothing.
Moves(P, c) ==
    {PDAConfiguration(
         P.pda_transitions[i].to_state,
         IF P.pda_transitions[i].input_symbol = Epsilon
         THEN c.remaining_input ELSE Tail(c.remaining_input),
         SelectSeq(P.pda_transitions[i].stack_push, LAMBDA x : x # Epsilon) \o Tail(c.stack))
     : i \in {j \in 1..Len(P.pda_transitions) :
                  /\ c.stack # <<>>
                  /\ P.pda_transitions[j].from_state = c.state
                  /\ P.pda_transitions[j].stack_pop = Head(c.stack)
                  /\ \/ P.pda_transitions[j].input_symbol = Epsilon
                     \/ /\ c.remaining_input # <<>>
                        /\ P.pda_transitions[j].input_symbol = Head(c.remaining_input)}}

\* The configurations reachable from those of C through stacks of at most
\* MaxStack symbols.  A search that returned never met a deeper stack, so for
\* it these are all the reachable configurations.
RECURSIVE Configurations(_, _)
Configurations(P, C) ==
    IF {d \in UNION {Moves(P, c) : c \in C} : Len(d.stack) <= MaxStack} \subseteq C THEN C
    ELSE Configurations(P,
             C \cup {d \in UNION {Moves(P, c) : c \in C} : Len(d.stack) <= MaxStack})

\* Some sequence of applicable transitions leads from the initial configuration
\* to an accepting state with the input read, whatever the stack.
SomeRunAccepts(P, input) ==
    /\ P.start_state # None
    /\ \E c \in Configurations(P, {PDAConfiguration(P.start_state, input,
                                                    <<P.start_stack_symbol>>)}) :
           c.state \in P.accept_states /\ c.remaining_input = <<>>

\* C16: whenever the search of PDA.accepts(w) returns, it returns True exactly
\* when some sequence of applicable transitions leads from (start state, w,
\* [start stack symbol]) to a configuration with an accepting state and no
\* input left, whatever its stack holds, an empty stack included.
C16_AcceptsIffSomeRunAccepts ==
    search.verdict \in {"True", "False"} =>
        (search.verdict = "True" <=> SomeRunAccepts(obj, w))

\* accepts returned True on a non-empty input for a configuration whose stack
\* is empty.
C16_Witness ==
    /\ search.verdict = "True"
    /\ w # <<>>
    /\ \E k \in search.visited : k[1] \in obj.accept_states /\ k[2] = <<>> /\ k[3] = <<>>

\* The search is at a turn of its loop that it can only repeat: the one pending
\* configuration is new, is not accepting, lies deeper than everything visited,
\* and every transition applicable to it leads to the same state and input with
\* the same top of stack one symbol deeper.  The turns that follow differ from
\* this one by the depth of the stack alone, so the loop has no last turn.
Reproduces(P, s) ==
    /\ s.verdict = "running"
    /\ Len(s.queue) = 1
    /\ s.queue[1].stack # <<>>
    /\ <<s.queue[1].state, s.queue[1].remaining_input, s.queue[1].stack>> \notin s.visited
    /\ \A k \in s.visited : Len(k[3]) < Len(s.queue[1].stack)
    /\ ~(s.queue[1].state \in P.accept_states /\ s.queue[1].remaining_input = <<>>)
    /\ Moves(P, s.queue[1])
           = {PDAConfiguration(s.queue[1].state, s.queue[1].remaining_input,
                               <<Head(s.queue[1].stack)>> \o s.queue[1].stack)}

\* C17: the search of PDA.accepts stops for every PDA and input, PDAs with
\* epsilon transitions that only push included: it returns accept, reject or
\* undecided, so it is never at a turn of its loop that it can only repeat
\* with a deeper stack.
C17_SearchStops == ~Reproduces(obj, search)

\* C18: 'ε' is in no automaton's alphabet: not after any add_transition or
\* add_pda_transition calls on a DFA, NFA, epsilon-NFA, PDA, Mealy or Moore
\* machine, and not in an automaton returned by thompson_construction,
\* epsilon_nfa_to_nfa, nfa_to_dfa or minimize_dfa.
C18_EpsilonNotInAlphabet ==
    \A A \in {obj, enfa, nfa, dfa, mdfa, mdfa2} :
        A # Absent => Epsilon \notin A.alphabet

\* A PDA that was given an epsilon transition and a transition on "a"; its
\* alphabet holds "a" and the two labels.
C18_Witness ==
    /\ obj.kind = "PDA"
    /\ last.op = "add_pda_transition"
    /\ \E i \in 1..Len(obj.pda_transitions) : obj.pda_transitions[i].input_symbol = Epsilon
    /\ "a" \in obj.alphabet
    /\ Cardinality(obj.alphabet) = 3

\* C19: Automaton.validate returns a pair (ok, message) and raises nothing; ok
\* is False exactly when the automaton has no states, has no start state, has
\* a start state that is not one of its states, or has a transition whose
\* source or target is not one of its states; the automaton is as before.
C19_ValidateIsStructural ==
    obj # Absent =>
        /\ Automaton_validate(obj)[1] \in BOOLEAN
        /\ ~Automaton_validate(obj)[1] <=>
               \/ DOMAIN obj.states = {}
               \/ obj.start_state = None
               \/ obj.start_state \notin DOMAIN obj.states
               \/ \E i \in 1..Len(obj.transitions) :
                      \/ obj.transitions[i].from_state \notin DOMAIN obj.states
                      \/ obj.transitions[i].to_state \notin DOMAIN obj.states
        /\ last.op = "validate" => last.raised = "" /\ last.result = validate(obj)

\* validate was called on an NFA whose only fault is a transition into a state
\* that was never added.
C19_Witness ==
    /\ obj.kind = "NFA"
    /\ last.op = "validate"
    /\ last.result = <<FALSE, "Transition to undefined state 'q1'">>
    /\ obj.start_state = "q0"

\* C20 as stated: MooreMachine.validate reports a machine valid exactly when
\* the base checks pass and every state reachable from the start state has an
\* output.
C20_ValidIffReachableHaveOutputs ==
    obj.kind = "MooreMachine" =>
        (MooreMachine_validate(obj)[1] <=>
            /\ Automaton_validate(obj)[1]
            /\ MooreReach(obj, {obj.start_state}) \subseteq DOMAIN obj.state_outputs)

\* C20, amended: MooreMachine.validate reports a machine valid exactly when the
\* base checks pass and every state of the machine, reachable from the start
\* state or not, has an output; add_state and add_transition succeed on a
\* machine whose states have no outputs.
C20_ValidIffAllHaveOutputs ==
    obj.kind = "MooreMachine" =>
        /\ MooreMachine_validate(obj)[1] <=>
               /\ Automaton_validate(obj)[1]
               /\ DOMAIN obj.states \subseteq DOMAIN obj.state_outputs
        /\ last.op \in {"add_state", "add_transition"} => last.raised = ""
        /\ \A from_state \in Names, to_state \in Names, symbol \in MachineSymbols :
               IsOk(MooreMachine_add_transition(obj, from_state, to_state, symbol, None))

\* validate was called on a Moore machine that passes the base checks and
\* whose start state q0, the only reachable state, has an output, while q1 has
\* none: it is reported invalid.
C20_Witness ==
    /\ obj.kind = "MooreMachine"
    /\ last.op = "validate"
    /\ last.result = <<FALSE, "State 'q1' has no output defined">>
    /\ obj.start_state = "q0"
    /\ MooreReach(obj, {"q0"}) = {"q0"}
    /\ DOMAIN obj.state_outputs = {"q0"}

\* C21: for every NFA N with a start state, nfa_to_dfa(N) completes, without
\* the ValueError of DFA.add_transition or any other error, and the DFA it
\* returns passes DFA.validate: its start state is one of its states, every
\* transition joins two of its states, and no (state, symbol) pair has two
\* transitions.
C21_SubsetResultIsValidDFA ==
    (pc = "nfa_to_dfa" /\ nfa # Absent /\ nfa.start_state # None) =>
        /\ exc = ""
        /\ DFA_validate(dfa)[1]

RECURSIVE Matched(_, _)
Matched(regex, depth) ==
    IF regex = <<>> THEN depth = 0
    ELSE IF Head(regex) = "(" THEN Matched(Tail(regex), depth + 1)
    ELSE IF Head(regex) = ")" THEN depth > 0 /\ Matched(Tail(regex), depth - 1)
    ELSE Matched(Tail(regex), depth)

\* C23: for every regex whose parentheses are unmatched, a '(' never closed or
\* a ')' without its '(' (as in "a)b"), parse_regex raises and returns no AST.
C23_UnmatchedParenthesesRejected ==
    (pc = "parse_regex" /\ ~Matched(w, 0)) =>
        /\ exc # ""
        /\ ast = NoNode

\* The number of symbols of input a machine consumes from state before the
\* first one that has no transition: all of them if there is none.
RECURSIVE Consumed(_, _, _)
Consumed(M, state, input) ==
    IF input = <<>> \/ <<state, Head(input)>> \notin DOMAIN M.table THEN 0
    ELSE 1 + Consumed(M,
                      IF M.kind = "MealyMachine" THEN M.table[<<state, Head(input)>>][1]
                      ELSE M.table[<<state, Head(input)>>],
                      Tail(input))

\* C24: for a Mealy or Moore machine with a start state and an input w of which
\* k symbols are consumed before the first undefined transition (all of w if
\* there is none), process_input reports success exactly when k = len(w); the
\* Mealy output sequence has k elements; the Moore output sequence has k + 1
\* elements and begins with the output of the start state; so a failure comes
\* with the outputs collected up to it.
C24_ProcessInputTruncates ==
    (last.op = "process_input" /\ obj.start_state # None) =>
        /\ last.result[1] = (Consumed(obj, obj.start_state, w) = Len(w))
        /\ obj.kind = "MealyMachine" =>
               Len(last.result[2]) = Consumed(obj, obj.start_state, w)
        /\ obj.kind = "MooreMachine" =>
               /\ Len(last.result[2]) = Consumed(obj, obj.start_state, w) + 1
               /\ obj.start_state \in DOMAIN obj.state_outputs =>
                      last.result[2][1] = obj.state_outputs[obj.start_state]

\* A Mealy machine stopped at the third symbol of its input, after two outputs.
C24_Witness ==
    /\ last.op = "process_input"
    /\ obj.kind = "MealyMachine"
    /\ Len(w) = 3
    /\ last.result[1] = FALSE
    /\ Len(last.result[2]) = 2

\* C25: for every DFA with a start state and every input w, the trace stops at
\* the first symbol without a transition and marks that step REJECT; REJECT
\* appears in the last step only; and accepts(w) is True exactly when the
\* trace has len(w) steps, none of them REJECT, and the state reached last
\* (the start state when w is empty) is accepting.
C25_DFATraceAgreesWithVerdict ==
    (last.op = "simulate_automaton" /\ obj.kind = "DFA" /\ obj.start_state # None) =>
        /\ \A i \in 1..Len(last.result.steps) :
               last.result.steps[i][3] = "REJECT" =>
                   /\ i = Len(last.result.steps)
                   /\ <<last.result.steps[i][1], last.result.steps[i][2]>> \notin DOMAIN obj.table
        /\ last.result.accepted <=>
               /\ Len(last.result.steps) = Len(w)
               /\ \A i \in 1..Len(last.result.steps) : last.result.steps[i][3] # "REJECT"
               /\ (IF w = <<>> THEN obj.start_state
                   ELSE last.result.steps[Len(last.result.steps)][3]) \in obj.accept_states

\* The epsilon-transitions of N lead from no state of S out of S.
EpsilonClosed(N, S) ==
    \A i \in 1..Len(N.transitions) :
        (N.transitions[i].symbol = Epsilon /\ N.transitions[i].from_state \in S)
            => N.transitions[i].to_state \in S

\* The states reached from S along epsilon-transitions only, S included.
RECURSIVE EpsilonReach(_, _)
EpsilonReach(N, S) ==
    IF EpsilonClosed(N, S) THEN S
    ELSE EpsilonReach(N, S \cup {N.transitions[i].to_state :
                                     i \in {j \in 1..Len(N.transitions) :
                                                /\ N.transitions[j].symbol = Epsilon
                                                /\ N.transitions[j].from_state \in S}})

\* C26: for every NFA or epsilon-NFA with a start state and every input w, the
\* trace has one (currentSet, symbol, nextSet) per symbol read and ends with
\* the first step whose nextSet is empty; for an epsilon-NFA every currentSet
\* and nextSet of the trace is closed under epsilon-transitions; and
\* accepts(w) is True exactly when the trace covers all of w and the last
\* nextSet (the epsilon-closure of the start state when w is empty) meets the
\* accept set.
C26_NFATraceAgreesWithVerdict ==
    (last.op = "simulate_automaton" /\ obj.kind \in {"NFA", "EpsilonNFA"}
         /\ obj.start_state # None) =>
        /\ Len(last.result.steps) <= Len(w)
        /\ \A i \in 1..Len(last.result.steps) :
               /\ last.result.steps[i][2] = w[i]
               /\ last.result.steps[i][3] = {} => i = Len(last.result.steps)
               /\ i < Len(last.result.steps) =>
                      last.result.steps[i + 1][1] = last.result.steps[i][3]
        /\ Len(last.result.steps) < Len(w) =>
               last.result.steps[Len(last.result.steps)][3] = {}
        /\ obj.kind = "EpsilonNFA" =>
               \A i \in 1..Len(last.result.steps) :
                   /\ EpsilonClosed(obj, last.result.steps[i][1])
                   /\ EpsilonClosed(obj, last.result.steps[i][3])
        /\ last.result.accepted <=>
               /\ Len(last.result.steps) = Len(w)
               /\ (IF w = <<>>
                   THEN IF obj.kind = "EpsilonNFA"
                        THEN EpsilonReach(obj, {obj.start_state})
                        ELSE {obj.start_state}
                   ELSE last.result.steps[Len(last.result.steps)][3])
                      \cap obj.accept_states # {}

\* The trace of an epsilon-NFA ended after two of three symbols, on an empty
\* set, and its first step took the closure of the start state to two states.
C26_Witness ==
    /\ last.op = "simulate_automaton"
    /\ obj.kind = "EpsilonNFA"
    /\ Len(w) = 3
    /\ Len(last.result.steps) = 2
    /\ last.result.steps[2][3] = {}
    /\ Cardinality(last.result.steps[1][1]) = 2

\* The states of N that the transitions on symbol lead to from the states of S.
SubsetMove(N, S, symbol) ==
    {N.transitions[i].to_state :
         i \in {j \in 1..Len(N.transitions) :
                    N.transitions[j].symbol = symbol /\ N.transitions[j].from_state \in S}}

\* The non-empty subsets reachable from those of F by symbol moves, F included.
RECURSIVE SubsetsFrom(_, _)
SubsetsFrom(N, F) ==
    IF {SubsetMove(N, S, a) : S \in F, a \in N.alphabet} \ {{}} \subseteq F THEN F
    ELSE SubsetsFrom(N, F \cup ({SubsetMove(N, S, a) : S \in F, a \in N.alphabet} \ {{}}))

ReachableSubsets(N) == SubsetsFrom(N, {{N.start_state}})

\* C27: nfa_to_dfa returns a DFA whose states correspond one to one to the
\* non-empty subsets of NFA states reachable from {start} by symbol moves: as
\* many states as such subsets (none for the empty subset, one per subset
\* however often it is found), and one transition per subset and symbol with a
\* non-empty successor, none for an empty one.
C27_StatesAreReachableSubsets ==
    (pc = "nfa_to_dfa" /\ nfa # Absent /\ nfa.start_state # None) =>
        /\ exc = ""
        /\ Cardinality(DOMAIN dfa.states) = Cardinality(ReachableSubsets(nfa))
        /\ Len(dfa.transitions)
               = Cardinality({p \in ReachableSubsets(nfa) \X nfa.alphabet :
                                  SubsetMove(nfa, p[1], p[2]) # {}})
        /\ DOMAIN dfa.table
               = {<<dfa.transitions[i].from_state, dfa.transitions[i].symbol>> :
                      i \in 1..Len(dfa.transitions)}

\* The worklist of nfa_to_dfa(N) when the start subset has been dequeued and
\* expanded, or the exception the expansion raised.
WorklistAfterStart(N) ==
    Try(subset_symbols(N,
            [b |-> get_dfa_state(N, [dfa |-> NewAutomaton("DFA"), state_map |-> <<>>,
                                     state_counter |-> 0], {N.start_state}).b,
             queue |-> <<>>],
            {N.start_state}, "q1", {{N.start_state}}, Order(N.alphabet)),
        LAMBDA c : Ok(c.queue))

\* C28: in nfa_to_dfa each newly discovered subset is put on the worklist
\* exactly once: when the start subset has been expanded, the worklist holds
\* every subset found from it, and none of them twice.
C28_SubsetsEnqueuedOnce ==
    (pc = "nfa_to_dfa" /\ nfa # Absent /\ nfa.start_state # None) =>
        /\ IsOk(WorklistAfterStart(nfa))
        /\ \A i \in 1..Len(WorklistAfterStart(nfa).value),
              j \in 1..Len(WorklistAfterStart(nfa).value) :
               WorklistAfterStart(nfa).value[i] = WorklistAfterStart(nfa).value[j] => i = j
        /\ {WorklistAfterStart(nfa).value[i] : i \in 1..Len(WorklistAfterStart(nfa).value)}
               = ({SubsetMove(nfa, {nfa.start_state}, a) : a \in nfa.alphabet}
                      \ {{}, {nfa.start_state}})

\* 2^n
RECURSIVE TwoToThe(_)
TwoToThe(n) == IF n = 0 THEN 1 ELSE 2 * TwoToThe(n - 1)

\* C29: nfa_to_dfa terminates for every NFA with n states, its worklist
\* emptied, and returns a DFA with at most 2^n - 1 states, each of them
\* reachable from the DFA's start state.
C29_SubsetConstructionBounded ==
    (pc = "nfa_to_dfa" /\ nfa # Absent /\ nfa.start_state # None) =>
        /\ exc = ""
        /\ get_state_count(dfa) <= TwoToThe(get_state_count(nfa)) - 1
        /\ Reachable(dfa) = DOMAIN dfa.states

\* C30: for every epsilon-NFA, epsilon-cycles included, and every set S of its
\* states, epsilon_closure returns the least set that contains S and is closed
\* under epsilon-transitions (S, every state reached from S along epsilon-edges
\* only, nothing else), and the function of subset_construction and the method
\* EpsilonNFA.epsilon_closure return the same set.
C30_EpsilonClosureIsLeastClosedSet ==
    (pc = "epsilon_nfa_to_nfa" /\ enfa # Absent) =>
        \A S \in SUBSET DOMAIN enfa.states :
            /\ EpsilonNFA_epsilon_closure(enfa, S) = EpsilonReach(enfa, S)
            /\ IsOk(epsilon_closure(enfa, S))
            /\ epsilon_closure(enfa, S).value = EpsilonNFA_epsilon_closure(enfa, S)

\* C31: the NFA returned by epsilon_nfa_to_nfa has exactly the state names and
\* the start state of the input epsilon-NFA and no epsilon-transition; a state s
\* is accepting in it exactly when the epsilon-closure of {s} holds an accepting
\* state of the input; and for every state s and symbol a other than epsilon
\* the targets of s on a are the epsilon-closure of the states the members of
\* the epsilon-closure of {s} move to on a.
C31_ElimClosesEveryMove ==
    pc = "epsilon_nfa_to_nfa" =>
        /\ nfa # Absent
        /\ DOMAIN nfa.states = DOMAIN enfa.states
        /\ nfa.start_state = enfa.start_state
        /\ \A i \in 1..Len(nfa.transitions) : nfa.transitions[i].symbol # Epsilon
        /\ \A s \in DOMAIN enfa.states :
               /\ s \in nfa.accept_states
                      <=> EpsilonReach(enfa, {s}) \cap enfa.accept_states # {}
               /\ \A a \in enfa.alphabet \ {Epsilon} :
                      get_next_states(nfa, s, a) =
                          EpsilonReach(enfa, UNION {get_next_states(enfa, u, a) :
                                                        u \in EpsilonReach(enfa, {s})})

\* The partitions the refinement loop of minimize_dfa holds at the start of
\* each of its passes, followed by the partitions it ends with.
RECURSIVE Passes(_, _)
Passes(D, partitions) ==
    LET r == refine_pass(D, partitions, 1, [new_partitions |-> <<>>, changed |-> FALSE])
    IN IF ~IsOk(r) THEN r
       ELSE IF ~r.value.changed THEN Ok(<<partitions, r.value.new_partitions>>)
       ELSE LET rest == Passes(D, r.value.new_partitions)
            IN IF IsOk(rest) THEN Ok(<<partitions>> \o rest.value) ELSE rest

\* The blocks are non-empty, pairwise disjoint and cover S.
IsPartitionOf(partitions, S) ==
    /\ \A i \in 1..Len(partitions) : partitions[i] # {}
    /\ \A i \in 1..Len(partitions), j \in 1..Len(partitions) :
           i # j => partitions[i] \cap partitions[j] = {}
    /\ UNION {partitions[i] : i \in 1..Len(partitions)} = S

\* C32: the refinement loop of minimize_dfa stops after at most as many passes
\* as the DFA has reachable states; at every pass the blocks are non-empty,
\* pairwise disjoint and cover the reachable states, each block is entirely
\* accepting or entirely non-accepting, and every pass but the last strictly
\* increases the number of blocks.
C32_RefinementTerminates ==
    pc = "minimize_dfa" =>
        /\ IsOk(find_reachable_states(dfa))
        /\ LET reachable == find_reachable_states(dfa).value
               passes == Passes(dfa, initial_partitions(dfa, reachable))
           IN /\ IsOk(passes)
              /\ Len(passes.value) - 1 <= Cardinality(reachable)
              /\ \A k \in 1..Len(passes.value) :
                     /\ IsPartitionOf(passes.value[k], reachable)
                     /\ \A i \in 1..Len(passes.value[k]) :
                            \/ passes.value[k][i] \subseteq dfa.accept_states
                            \/ passes.value[k][i] \cap dfa.accept_states = {}
              /\ \A k \in 1..(Len(passes.value) - 2) :
                     Len(passes.value[k + 1]) > Len(passes.value[k])

\* D without the states that cannot be reached from its start state, and
\* without their transitions.
WithoutUnreachable(D) ==
    LET keep == {i \in 1..Len(D.transitions) : D.transitions[i].from_state \in Reachable(D)}
    IN [D EXCEPT !.states = [n \in DOMAIN D.states \cap Reachable(D) |-> D.states[n]],
                 !.accept_states = @ \cap Reachable(D),
                 !.transitions = [k \in 1..Cardinality(keep) |->
                                      D.transitions[CHOOSE i \in keep :
                                          Cardinality({j \in keep : j <= i}) = k]],
                 !.table = [key \in {x \in DOMAIN D.table : x[1] \in Reachable(D)} |->
                                D.table[key]]]

\* C33: minimize_dfa discards unreachable states: the blocks it ends with hold
\* the states reachable from the start state and no other, the DFA it returns
\* is the one it returns for the input without its unreachable states, and
\* every state of the returned DFA is reachable from the returned start state.
C33_UnreachableStatesDiscarded ==
    pc = "minimize_dfa" =>
        /\ IsOk(final_partitions(dfa))
        /\ UNION {final_partitions(dfa).value[i] :
                      i \in 1..Len(final_partitions(dfa).value)} = Reachable(dfa)
        /\ mdfa # Absent
        /\ Ok(mdfa) = minimize_dfa(WithoutUnreachable(dfa))
        /\ Reachable(mdfa) = DOMAIN mdfa.states

\* s is what is left of t after some of its first symbols.
IsSuffix(s, t) == Len(s) <= Len(t) /\ s = SubSeq(t, Len(t) - Len(s) + 1, Len(t))

\* Configuration d comes from configuration c by a transition of P that leaves
\* c's state and either has the label epsilon and keeps the remaining input, or
\* has the next input symbol as its label and removes that one symbol.
ReadsOneOrNone(P, c, d) ==
    \E i \in 1..Len(P.pda_transitions) :
        /\ P.pda_transitions[i].from_state = c.state
        /\ P.pda_transitions[i].to_state = d.state
        /\ \/ /\ P.pda_transitions[i].input_symbol = Epsilon
              /\ d.remaining_input = c.remaining_input
           \/ /\ P.pda_transitions[i].input_symbol # Epsilon
              /\ c.remaining_input # <<>>
              /\ P.pda_transitions[i].input_symbol = Head(c.remaining_input)
              /\ d.remaining_input = Tail(c.remaining_input)

\* C34: during PDA.accepts no configuration (state, remaining input, stack) is
\* expanded more than once: a turn of the loop that dequeues a configuration
\* whose key is already in the visited set adds nothing to the queue or to the
\* visited set, every other turn puts the key of its configuration into the
\* visited set, and no key ever leaves it; the remaining input of every
\* configuration put on the queue is a suffix of the original input, equal to
\* its predecessor's on an epsilon transition and one symbol shorter on any
\* other transition.
C34_EachConfigurationExpandedOnce ==
    [][(search.verdict = "running" /\ search.queue # <<>>) =>
           /\ search.visited \subseteq search'.visited
           /\ <<search.queue[1].state, search.queue[1].remaining_input,
                search.queue[1].stack>> \in search'.visited
           /\ <<search.queue[1].state, search.queue[1].remaining_input,
                search.queue[1].stack>> \in search.visited
                  => /\ search'.queue = Tail(search.queue)
                     /\ search'.visited = search.visited
           /\ SubSeq(search'.queue, 1, Len(search.queue) - 1) = Tail(search.queue)
           /\ \A i \in Len(search.queue)..Len(search'.queue) :
                  /\ IsSuffix(search'.queue[i].remaining_input, w)
                  /\ ReadsOneOrNone(obj, search.queue[1], search'.queue[i])]_vars

\* The search is about to dequeue a configuration it has visited before, after
\* it expanded a configuration by a transition that read an input symbol.
C34_Witness ==
    /\ search.verdict = "running"
    /\ search.queue # <<>>
    /\ <<search.queue[1].state, search.queue[1].remaining_input, search.queue[1].stack>>
           \in search.visited
    /\ \E k \in search.visited : Len(k[2]) = Len(w)
    /\ \E i \in 1..Len(search.queue) : Len(search.queue[i].remaining_input) < Len(w)

\* Transition t of P applies to configuration c: it leaves c's state, pops the
\* top of c's stack, and its label is epsilon or the next input symbol.
Applies(P, c, t) ==
    /\ c.stack # <<>>
    /\ t.from_state = c.state
    /\ t.stack_pop = Head(c.stack)
    /\ \/ t.input_symbol = Epsilon
       \/ c.remaining_input # <<>> /\ t.input_symbol = Head(c.remaining_input)

\* The walk has nowhere to go from c: c is accepting with the input read, or
\* its stack is empty, or no transition applies to it.
Halts(P, c) ==
    \/ c.state \in P.accept_states /\ c.remaining_input = <<>>
    \/ c.stack = <<>>
    \/ \A i \in 1..Len(P.pda_transitions) : ~Applies(P, c, P.pda_transitions[i])

\* c after transition t: the top popped, the symbols of the push-sequence put
\* on the stack with the first of them on top, one input symbol read unless
\* the label is epsilon.
Applied(c, t) ==
    PDAConfiguration(
        t.to_state,
        IF t.input_symbol = Epsilon THEN c.remaining_input ELSE Tail(c.remaining_input),
        SelectSeq(t.stack_push, LAMBDA x : x # Epsilon) \o Tail(c.stack))

C36_TestCorePipeline ==
    (pc = "nfa_to_dfa" /\ ast # NoNode /\ nfa = Absent) =>
        /\ dfa # Absent
        /\ IsOk(minimize_dfa(dfa))
        /\ DFA_accepts(minimize_dfa(dfa).value, w) = EpsilonNFA_accepts(enfa, w)
        /\ ast = AbbAST =>
               /\ DFA_accepts(minimize_dfa(dfa).value, <<"a", "b", "b">>)
               /\ DFA_accepts(minimize_dfa(dfa).value, <<"a", "a", "b", "b">>)
               /\ ~DFA_accepts(minimize_dfa(dfa).value, <<"a", "b">>)
               /\ ~DFA_accepts(minimize_dfa(dfa).value, <<>>)

\* Every state of A is flagged accepting exactly when its name is in
\* accept_states, and flagged start exactly when its name is start_state.
FlagsAgree(A) ==
    \A name \in DOMAIN A.states :
        /\ A.states[name].is_accept <=> name \in A.accept_states
        /\ A.states[name].is_start <=> name = A.start_state

\* C37: the per-state flags agree with the automaton's sets: after any sequence
\* of add_state calls (re-adding a name and adding a second start state
\* included), and in every automaton returned by thompson_construction,
\* epsilon_nfa_to_nfa, nfa_to_dfa and minimize_dfa, a state's is_accept flag is
\* true exactly when its name is in accept_states and its is_start flag is true
\* exactly when its name is start_state, so at most one state is flagged start.
C37_FlagsAgreeWithSets ==
    /\ \A A \in {obj, enfa, nfa, dfa, mdfa} \ {Absent} :
           /\ FlagsAgree(A)
           /\ Cardinality({name \in DOMAIN A.states : A.states[name].is_start}) <= 1
    /\ pc \in {"epsilon_nfa_to_nfa", "nfa_to_dfa", "minimize_dfa"} => exc = ""

\* C38: after any sequence of add_transition calls on a MealyMachine or
\* MooreMachine the transitions list and the lookup table describe the same
\* transitions: every listed (from, symbol) pair occurs once in the list and
\* its listed target (and Mealy output) is the table entry, so a second add for
\* an existing (state, symbol) never silently replaces the first; and a Mealy
\* add_transition without an output fails and changes nothing.
C38_ListAndTableAgree ==
    obj.kind \in {"MealyMachine", "MooreMachine"} =>
        /\ \A i \in 1..Len(obj.transitions) :
               /\ \A j \in 1..Len(obj.transitions) :
                      (/\ obj.transitions[j].from_state = obj.transitions[i].from_state
                       /\ obj.transitions[j].symbol = obj.transitions[i].symbol) => j = i
               /\ <<obj.transitions[i].from_state, obj.transitions[i].symbol>>
                      \in DOMAIN obj.table
               /\ obj.table[<<obj.transitions[i].from_state, obj.transitions[i].symbol>>]
                      = IF obj.kind = "MealyMachine"
                        THEN <<obj.transitions[i].to_state, obj.transitions[i].output>>
                        ELSE obj.transitions[i].to_state
        /\ obj.kind = "MealyMachine" =>
               \A from_state \in Names, to_state \in Names, symbol \in MachineSymbols :
                   /\ ~IsOk(MealyMachine_add_transition(obj, from_state, to_state, symbol, None))
                   /\ After(MealyMachine_add_transition(obj, from_state, to_state, symbol, None))
                          = obj

\* C39: after any sequence of add_pda_transition calls the PDA's input alphabet
\* is exactly the set of the input symbols of its PDA transitions other than
\* epsilon (so it holds no composite label such as "a,Z/AZ"), and its stack
\* alphabet is exactly the set of the symbols its transitions pop and of the
\* symbols other than epsilon they push.
C39_PdaAlphabetsAreSymbols ==
    obj.kind = "PDA" =>
        /\ obj.alphabet =
               {obj.pda_transitions[i].input_symbol : i \in 1..Len(obj.pda_transitions)}
                   \ {Epsilon}
        /\ obj.stack_alphabet =
               {obj.pda_transitions[i].stack_pop : i \in 1..Len(obj.pda_transitions)}
                   \cup (UNION {{obj.pda_transitions[i].stack_push[k] :
                                     k \in 1..Len(obj.pda_transitions[i].stack_push)} :
                                i \in 1..Len(obj.pda_transitions)} \ {Epsilon})

\* The walk of simulate_step_by_step ended in an accepting state with the
\* input read.
WalkAccepts ==
    /\ last.op = "simulate_step_by_step"
    /\ last.result # <<>>
    /\ last.result[Len(last.result)][1].state \in obj.accept_states
    /\ last.result[Len(last.result)][1].remaining_input = <<>>

\* C40: the step trace never contradicts a positive verdict: for every PDA and
\* input w, if the last configuration of simulate_step_by_step(w) has an
\* accepting state and no input left, the breadth-first search of accepts(w)
\* reaches an accepting configuration and returns True, also when other
\* branches of the configuration graph have no end.
C40_AcceptingWalkMeansAccepted == WalkAccepts ~> (search.verdict = "True")

\* accepts returned True for an input on which the walk ended accepting after
\* at least one transition, while the search still held a configuration of a
\* branch without end: one that an epsilon transition takes to itself with a
\* deeper stack.
C40_Witness ==
    /\ WalkAccepts
    /\ Len(last.result) >= 2
    /\ search.verdict = "True"
    /\ \E i \in 1..Len(search.queue) :
           /\ search.queue[i].stack # <<>>
           /\ PDAConfiguration(search.queue[i].state, search.queue[i].remaining_input,
                               <<Head(search.queue[i].stack)>> \o search.queue[i].stack)
                  \in Moves(obj, search.queue[i])

====
